---------------------------- MODULE Spec2Model ----------------------------
(***************************************************************************)
(* Model of the drift HTTP router: the radix tree of tree.go (addRoute,   *)
(* insertChild, getValue, incrementChildPrio), the chain execution of     *)
(* Context.Next / Context.Abort, the pooled dispatch of Engine.ServeHTTP  *)
(* and Engine.handleRequest, and the timeout and recovery middlewares.    *)
(*                                                                         *)
(* Go strings are sequences of one-character strings; Go indices are      *)
(* 0-based and are translated through Slice / At.  A nil handler slice is *)
(* NilH (the empty tuple), a non-nil chain c is Some(c) = <<c>>.          *)
(***************************************************************************)
EXTENDS Integers, Sequences, FiniteSets, TLC

VARIABLES
    root,        \* tree.go: the arena of nodes of one route tree, node 1 is the root
    registered,  \* history: the addRoute calls made so far, with their outcome
    lookup,      \* the last getValue call and its result, NoLookup if none
    trees,       \* drift.go: Engine.trees, method -> arena (NoTree if nil)
    reqs,        \* the inbound requests, [method, path]
    ctxs,        \* the Context objects allocated by pool.New so far
    pool,        \* drift.go: Engine.pool, the contexts put back and not taken
    units,       \* the goroutines: request, context, call stack, status
    ran,         \* history: per request, the chains handleRequest started
    calls,       \* history: per request, the handlers invoked, in order
    post,        \* history: per request, the positions whose code after Next ran
    ncalls,      \* history: per request, the calls of Next made by handlers
    first,       \* history: per request, the context as its first handler starts
    fired,       \* history: per request, the calls of the timeout handler
    groups,      \* router.go: the RouterGroups created, group 1 is the engine's own
    bound        \* history: the routes registered through groups

treeVars == <<root, registered, lookup>>

engVars == <<trees, reqs, ctxs, pool, units, ran, calls, post, ncalls, first, fired>>

grpVars == <<groups, bound>>

vars == <<root, registered, lookup, trees, reqs, ctxs, pool, units, ran, calls,
          post, ncalls, first, fired, groups, bound>>

(***************************************************************************)
(* Bounds of the model.                                                    *)
(***************************************************************************)
MaxRoutes == 3

\* the contexts the pool may allocate
MaxCtx == 2

\* the requests in flight in the dispatch specifications
MaxReqs == 2

\* the calls of Next the handlers of one request may make
MaxNextCalls == 130

\* the groups derived from the engine's own group
MaxGroups == 2

\* the handlers given to groups and routes in total
MaxGiven == 3

\* the routes registered through groups
MaxBound == 2

\* the registrations up to which lookups are repeated one after another
MaxRepeat == 2

(***************************************************************************)
(* Go string helpers.                                                      *)
(***************************************************************************)
\* s[a:b] of Go
Slice(s, a, b) == SubSeq(s, a + 1, b)

\* s[a:] of Go
From(s, a) == SubSeq(s, a + 1, Len(s))

\* s[i] of Go
At(s, i) == s[i + 1]

min(a, b) == IF a < b THEN a ELSE b

EmptyMap == [x \in {} |-> x]

\* m[k] = v of a Go map
MapSet(m, k, v) == [x \in (DOMAIN m) \cup {k} |-> IF x = k THEN v ELSE m[x]]

NilH == <<>>

Some(c) == <<c>>

(***************************************************************************)
(* tree.go: the node type.                                                 *)
(***************************************************************************)
\* &node{} : the zero value of a node
ZeroNode ==
    [path |-> <<>>, indices |-> <<>>, children |-> <<>>, handlers |-> NilH,
     priority |-> 0, nType |-> "static", wildChild |-> FALSE, fullPath |-> <<>>]

\* a tree holding only its (empty) root
NewNode == <<ZeroNode>>

Ok(t) == [t |-> t, err |-> "ok"]

Panic(t, msg) == [t |-> t, err |-> msg]

\* longestCommonPrefix
RECURSIVE LcpFrom(_, _, _)
LcpFrom(a, b, i) ==
    IF i < min(Len(a), Len(b)) /\ At(a, i) = At(b, i)
    THEN LcpFrom(a, b, i + 1)
    ELSE i

longestCommonPrefix(a, b) == LcpFrom(a, b, 0)

IsWild(c) == c = ":" \/ c = "*"

\* findWildcard without the test for a second sigil in the segment
findWildcardAnySigils(path) ==
    LET starts == {s \in 0 .. Len(path) - 1 : IsWild(At(path, s))}
    IN  IF starts = {}
        THEN [wildcard |-> <<>>, i |-> -1, valid |-> FALSE]
        ELSE LET start == CHOOSE s \in starts : \A s2 \in starts : s <= s2
                 rest  == From(path, start + 1)
                 slash == {e \in 0 .. Len(rest) - 1 : At(rest, e) = "/"}
                 stop  == IF slash = {} THEN Len(rest)
                          ELSE CHOOSE e \in slash : \A e2 \in slash : e <= e2
             IN  [wildcard |-> Slice(path, start, start + 1 + stop),
                  i |-> start, valid |-> TRUE]

\* findWildcard: the first wildcard segment, its start (-1 if none) and whether
\* it holds a single sigil
findWildcard(path) ==
    LET starts == {s \in 0 .. Len(path) - 1 : IsWild(At(path, s))}
    IN  IF starts = {}
        THEN [wildcard |-> <<>>, i |-> -1, valid |-> FALSE]
        ELSE LET start == CHOOSE s \in starts : \A s2 \in starts : s <= s2
                 rest  == From(path, start + 1)
                 slash == {e \in 0 .. Len(rest) - 1 : At(rest, e) = "/"}
                 stop  == IF slash = {} THEN Len(rest)
                          ELSE CHOOSE e \in slash : \A e2 \in slash : e <= e2
                 valid == \A e \in 0 .. stop - 1 : ~IsWild(At(rest, e))
             IN  [wildcard |-> Slice(path, start, start + 1 + stop),
                  i |-> start, valid |-> valid]

\* incrementChildPrio with the priority raised and the child left where it was
incrementChildPrioInPlace(t, n, pos) ==
    LET cs == t[n].children
    IN  [t |-> [t EXCEPT ![cs[pos + 1]].priority = @ + 1], pos |-> pos]

\* incrementChildPrio with the children swapped and the index string left as it was
incrementChildPrioStaleIndices(t, n, pos) ==
    LET cs     == t[n].children
        prio   == t[cs[pos + 1]].priority + 1
        t1     == [t EXCEPT ![cs[pos + 1]].priority = prio]
        ahead  == {k \in 0 .. pos :
                      \A j \in k .. pos - 1 : t[At(cs, j)].priority < prio}
        newPos == CHOOSE k \in ahead : \A k2 \in ahead : k <= k2
        move(s) == Slice(s, 0, newPos) \o <<At(s, pos)>>
                   \o Slice(s, newPos, pos) \o From(s, pos + 1)
    IN  [t |-> [t1 EXCEPT ![n].children = move(cs)], pos |-> newPos]

\* incrementChildPrio: the arena and the new position of the child
incrementChildPrio(t, n, pos) ==
    LET cs     == t[n].children
        prio   == t[cs[pos + 1]].priority + 1
        t1     == [t EXCEPT ![cs[pos + 1]].priority = prio]
        ahead  == {k \in 0 .. pos :
                      \A j \in k .. pos - 1 : t[At(cs, j)].priority < prio}
        newPos == CHOOSE k \in ahead : \A k2 \in ahead : k <= k2
        move(s) == Slice(s, 0, newPos) \o <<At(s, pos)>>
                   \o Slice(s, newPos, pos) \o From(s, pos + 1)
        t2     == IF newPos # pos
                  THEN [t1 EXCEPT ![n].children = move(cs),
                                  ![n].indices = move(t[n].indices)]
                  ELSE t1
    IN  [t |-> t2, pos |-> newPos]

\* insertChild
RECURSIVE insertChild(_, _, _, _, _)
insertChild(t, n, path, fullPath, handlers) ==
    LET fw       == findWildcard(path)
        wildcard == fw.wildcard
        i        == fw.i
    IN  IF i < 0
        THEN Ok([t EXCEPT ![n].path = path, ![n].handlers = handlers,
                          ![n].fullPath = fullPath])
        ELSE IF ~fw.valid
        THEN Panic(t, "only one wildcard per path segment is allowed")
        ELSE IF Len(wildcard) < 2
        THEN Panic(t, "wildcards must be named with a non-empty name")
        ELSE IF Len(t[n].children) > 0
        THEN Panic(t, "wildcard segment conflicts with existing children")
        ELSE IF wildcard[1] = ":"
        THEN LET t1    == IF i > 0 THEN [t EXCEPT ![n].path = Slice(path, 0, i)]
                          ELSE t
                 path1 == IF i > 0 THEN From(path, i) ELSE path
                 c     == Len(t1) + 1
                 child == [ZeroNode EXCEPT !.nType = "param", !.path = wildcard,
                                           !.fullPath = fullPath, !.priority = 1]
                 t2    == Append([t1 EXCEPT ![n].wildChild = TRUE,
                                            ![n].children = <<c>>], child)
             IN  IF Len(wildcard) < Len(path1)
                 THEN LET c2     == c + 1
                          child2 == [ZeroNode EXCEPT !.priority = 1,
                                                     !.fullPath = fullPath]
                          t3     == Append([t2 EXCEPT ![c].children = <<c2>>],
                                           child2)
                      IN  insertChild(t3, c2, From(path1, Len(wildcard)),
                                      fullPath, handlers)
                 ELSE Ok([t2 EXCEPT ![c].handlers = handlers])
        ELSE IF i + Len(wildcard) # Len(path)
        THEN Panic(t, "catch-all routes are only allowed at the end of the path")
        ELSE IF Len(t[n].path) > 0 /\ t[n].path[Len(t[n].path)] = "/"
        THEN Panic(t, "catch-all conflicts with existing handle for the path segment root")
        ELSE IF i - 1 < 0
        THEN Panic(t, "index out of range")
        ELSE IF At(path, i - 1) # "/"
        THEN Panic(t, "no / before catch-all")
        ELSE LET c      == Len(t) + 1
                 c2     == c + 1
                 child  == [ZeroNode EXCEPT !.wildChild = TRUE, !.nType = "catchAll",
                                            !.fullPath = fullPath, !.priority = 1,
                                            !.children = <<c2>>]
                 child2 == [ZeroNode EXCEPT !.path = From(path, i - 1),
                                            !.nType = "catchAll",
                                            !.handlers = handlers, !.priority = 1,
                                            !.fullPath = fullPath]
                 t1     == [t EXCEPT ![n].path = Slice(path, 0, i - 1),
                                     ![n].children = <<c>>,
                                     ![n].indices = <<"/">>]
             IN  Ok(t1 \o <<child, child2>>)


\* the end of addRoute: the pattern is consumed, bind the handlers to node n
bindHandlers(t, n, fullPath, handlers) ==
    IF t[n].handlers # NilH
    THEN Panic(t, "handlers are already registered for path")
    ELSE Ok([t EXCEPT ![n].handlers = handlers, ![n].fullPath = fullPath])

\* the test of addRoute that the pattern continues with the wildcard wp of the
\* node: the same sigil and name, ending the pattern or followed by '/'
wildcardMatches(path, wp) ==
    /\ Len(path) >= Len(wp)
    /\ wp = Slice(path, 0, Len(wp))
    /\ (Len(wp) >= Len(path) \/ At(path, Len(wp)) = "/")

\* the edge split with a child that does not take over the handlers of the node
splitEdgeLosingHandlers(t0, n, path0, fullPath, pfi, i) ==
    LET c == Len(t0) + 1
    IN  Append(
          [t0 EXCEPT ![n].children = <<c>>,
                     ![n].indices = <<At(t0[n].path, i)>>,
                     ![n].path = Slice(path0, 0, i),
                     ![n].handlers = NilH,
                     ![n].wildChild = FALSE,
                     ![n].fullPath = Slice(fullPath, 0, pfi + i)],
          [path |-> From(t0[n].path, i),
           wildChild |-> t0[n].wildChild,
           nType |-> "static",
           indices |-> t0[n].indices,
           children |-> t0[n].children,
           handlers |-> NilH,
           priority |-> t0[n].priority - 1,
           fullPath |-> t0[n].fullPath])

\* the edge split with the wildcard flag left on the node that is split
splitEdgeKeepingWildChild(t0, n, path0, fullPath, pfi, i) ==
    LET c == Len(t0) + 1
    IN  Append(
          [t0 EXCEPT ![n].children = <<c>>,
                     ![n].indices = <<At(t0[n].path, i)>>,
                     ![n].path = Slice(path0, 0, i),
                     ![n].handlers = NilH,
                     ![n].fullPath = Slice(fullPath, 0, pfi + i)],
          [path |-> From(t0[n].path, i),
           wildChild |-> t0[n].wildChild,
           nType |-> "static",
           indices |-> t0[n].indices,
           children |-> t0[n].children,
           handlers |-> t0[n].handlers,
           priority |-> t0[n].priority - 1,
           fullPath |-> t0[n].fullPath])

\* the edge split with the new child named after the pattern being inserted
splitEdgeRenamingChild(t0, n, path0, fullPath, pfi, i) ==
    LET c == Len(t0) + 1
    IN  Append(
          [t0 EXCEPT ![n].children = <<c>>,
                     ![n].indices = <<At(t0[n].path, i)>>,
                     ![n].path = Slice(path0, 0, i),
                     ![n].handlers = NilH,
                     ![n].wildChild = FALSE,
                     ![n].fullPath = Slice(fullPath, 0, pfi + i)],
          [path |-> From(t0[n].path, i),
           wildChild |-> t0[n].wildChild,
           nType |-> "static",
           indices |-> t0[n].indices,
           children |-> t0[n].children,
           handlers |-> t0[n].handlers,
           priority |-> t0[n].priority - 1,
           fullPath |-> fullPath])

\* the edge split of addRoute: node n keeps the first i bytes of its path, a new
\* child takes the rest with the children, handlers and wildcard flag of n
splitEdge(t0, n, path0, fullPath, pfi, i) ==
    LET c == Len(t0) + 1
    IN  Append(
          [t0 EXCEPT ![n].children = <<c>>,
                     ![n].indices = <<At(t0[n].path, i)>>,
                     ![n].path = Slice(path0, 0, i),
                     ![n].handlers = NilH,
                     ![n].wildChild = FALSE,
                     ![n].fullPath = Slice(fullPath, 0, pfi + i)],
          [path |-> From(t0[n].path, i),
           wildChild |-> t0[n].wildChild,
           nType |-> "static",
           indices |-> t0[n].indices,
           children |-> t0[n].children,
           handlers |-> t0[n].handlers,
           priority |-> t0[n].priority - 1,
           fullPath |-> t0[n].fullPath])

\* the walk loop of addRoute, entered at node n with the unconsumed path
RECURSIVE walk(_, _, _, _, _, _)
walk(t0, n, path0, fullPath, handlers, pfi) ==
    LET i  == longestCommonPrefix(path0, t0[n].path)
        \* Split edge
        t  == IF i < Len(t0[n].path)
              THEN splitEdge(t0, n, path0, fullPath, pfi, i)
              ELSE t0
    IN  IF i < Len(path0)
        THEN LET path == From(path0, i)
                 idxc == path[1]
                 hits == {k \in 0 .. Len(t[n].indices) - 1 : At(t[n].indices, k) = idxc}
             IN  IF t[n].wildChild
                 THEN LET w  == t[n].children[1]
                          t1 == [t EXCEPT ![w].priority = @ + 1]
                          wp == t1[w].path
                      IN  IF wildcardMatches(path, wp)
                          THEN walk(t1, w, path, fullPath, handlers,
                                    pfi + Len(t[n].path))
                          ELSE Panic(t1, "conflict with wildcard route")
                 ELSE IF hits # {}
                 THEN LET k  == CHOOSE k \in hits : \A k2 \in hits : k <= k2
                          r  == incrementChildPrio(t, n, k)
                      IN  walk(r.t, At(r.t[n].children, r.pos), path, fullPath,
                               handlers, pfi + Len(t[n].path))
                 ELSE IF ~IsWild(idxc)
                 THEN LET d  == Len(t) + 1
                          t1 == Append([t EXCEPT ![n].indices = Append(@, idxc),
                                                 ![n].children = Append(@, d)],
                                       [ZeroNode EXCEPT !.fullPath = fullPath])
                          r  == incrementChildPrio(t1, n, Len(t1[n].indices) - 1)
                      IN  insertChild(r.t, d, path, fullPath, handlers)
                 ELSE insertChild(t, n, path, fullPath, handlers)
        ELSE bindHandlers(t, n, fullPath, handlers)

\* node.addRoute on the root of the arena
addRoute(t, path, handlers) ==
    LET t1 == [t EXCEPT ![1].priority = @ + 1]
    IN  IF Len(t1[1].path) = 0 /\ Len(t1[1].children) = 0
        THEN LET r == insertChild(t1, 1, path, path, handlers)
             IN  IF r.err = "ok"
                 THEN Ok([r.t EXCEPT ![1].nType = "static"])
                 ELSE r
        ELSE walk(t1, 1, path, path, handlers, 0)

NotFound == [handlers |-> NilH, params |-> EmptyMap, fullPath |-> <<>>, err |-> "ok"]

\* the end of a parameter value: the first '/' at or after 0, or len(path)
paramEnd(path) ==
    LET slash == {e \in 0 .. Len(path) - 1 : At(path, e) = "/"}
    IN  IF slash = {} THEN Len(path)
        ELSE CHOOSE e \in slash : \A e2 \in slash : e <= e2

\* the map key of a param node taken with its sigil: n.path
paramNameWithSigil(wp) == wp

\* the map key of a param node ":name": n.path[1:]
paramName(wp) == From(wp, 1)

\* the value of a catch-all without the separator it starts with
catchAllValueWithoutSeparator(path) == From(path, 1)

\* the value bound to a catch-all: the unconsumed path, as it is
catchAllValue(path) == path

\* the map key of a catch-all node "/*name": n.path[2:]
catchAllName(wp) == From(wp, 2)

\* the prefix test without the comparison of the bytes
hasPrefixOfAnyBytes(path, prefix) == Len(path) >= Len(prefix)

\* path[:len(prefix)] == prefix
hasPrefix(path, prefix) == Slice(path, 0, Len(prefix)) = prefix

\* the walk loop of getValue, entered at node n with the unconsumed path
RECURSIVE getWalk(_, _, _, _)
getWalk(t, n, path0, params) ==
    LET prefix == t[n].path
    IN  IF Len(path0) > Len(prefix)
        THEN IF hasPrefix(path0, prefix)
             THEN LET path == From(path0, Len(prefix))
                      idxc == path[1]
                      hits == {k \in 0 .. Len(t[n].indices) - 1 :
                                  At(t[n].indices, k) = idxc}
                  IN  IF hits # {}
                      THEN getWalk(t, At(t[n].children,
                                         CHOOSE k \in hits : \A k2 \in hits : k <= k2),
                                   path, params)
                      ELSE IF t[n].wildChild
                      THEN LET w == t[n].children[1]
                           IN  IF t[w].nType = "param"
                               THEN LET end == paramEnd(path)
                                        ps  == MapSet(params, paramName(t[w].path),
                                                      Slice(path, 0, end))
                                    IN  IF end < Len(path)
                                        THEN IF Len(t[w].children) > 0
                                             THEN getWalk(t, t[w].children[1],
                                                          From(path, end), ps)
                                             ELSE NotFound
                                        ELSE [handlers |-> t[w].handlers,
                                              params |-> ps,
                                              fullPath |-> t[w].fullPath,
                                              err |-> "ok"]
                               ELSE IF t[w].nType = "catchAll"
                               THEN [handlers |-> t[w].handlers,
                                     params |-> MapSet(params, catchAllName(t[w].path),
                                                     catchAllValue(path)),
                                     fullPath |-> t[w].fullPath,
                                     err |-> "ok"]
                               ELSE [NotFound EXCEPT !.err = "invalid node type"]
                      ELSE NotFound
             ELSE NotFound
        ELSE IF path0 = prefix
        THEN IF t[n].handlers # NilH
             THEN [handlers |-> t[n].handlers, params |-> params,
                   fullPath |-> t[n].fullPath, err |-> "ok"]
             ELSE NotFound
        ELSE NotFound

\* node.getValue on the root of the arena
getValue(t, path) == getWalk(t, 1, path, EmptyMap)


(***************************************************************************)
(* sse_example.go (package drift): Context.                                *)
(***************************************************************************)
\* int8(x): the value of x in 8 bits, two's complement
Int8(x) == ((x + 128) % 256) - 128

\* &Context{} : the zero value pool.New returns
ZeroContext ==
    [Request |-> 0, Params |-> EmptyMap, store |-> EmptyMap, handlers |-> <<>>,
     index |-> 0, aborted |-> FALSE, statusCode |-> 0]

\* Context.Abort
Abort(c) == [c EXCEPT !.aborted = TRUE]

\* Context.Status
Status(c, code) == [c EXCEPT !.statusCode = code]

\* Context.JSON
JSON(c, code) == [c EXCEPT !.statusCode = code]

\* Context.AbortWithStatus
AbortWithStatus(c, code) == Abort(Status(c, code))

\* Context.AbortWithStatusJSON
AbortWithStatusJSON(c, code) == JSON(Abort(c), code)

\* Context.Set
Set(c, key, value) == [c EXCEPT !.store = MapSet(@, key, value)]

\* c.index++ of Context.Next, on an int8
IncIndex(c) == [c EXCEPT !.index = Int8(@ + 1)]

\* the loop condition of Context.Next: c.index < int8(len(c.handlers))
LoopCond(c) == c.index < Int8(Len(c.handlers))

\* Context.Next without its test of c.aborted
nextStopsIgnoringAbort(c) == ~LoopCond(c)

\* Context.Next returns: the loop ended, or the chain is aborted
nextStops(c) == ~LoopCond(c) \/ c.aborted

\* c.handlers[c.index] is inside the slice
InRange(c) == 0 <= c.index /\ c.index < Len(c.handlers)

(***************************************************************************)
(* The handlers: each kind is the sequence of calls its body makes on the  *)
(* context.  "Next" calls c.Next(); "Post" stands for code that runs after *)
(* an earlier c.Next() returned; "Spin" is a loop of c.Next() calls.       *)
(***************************************************************************)
Prog(h) ==
    CASE h = "pass"     -> <<>>
      [] h = "wrap"     -> <<"Next", "Post">>
      [] h = "set"      -> <<"Set">>
      [] h = "abort"    -> <<"Abort">>
      [] h = "abortSt"  -> <<"AbortWithStatus">>
      [] h = "abortJS"  -> <<"AbortWithStatusJSON">>
      [] h = "abortNx"  -> <<"Abort", "Next", "Post">>
      [] h = "spin"     -> <<"Spin", "Post">>
      [] h = "panic"    -> <<"Panic">>
      [] h = "notFound" -> <<"JSON404">>
      [] h = "th408"    -> <<"AbortWithStatusJSON408">>
      [] h = "thCustom" -> <<"JSON408">>
      [] h = "recovery"       -> <<"Next">>
      [] h = "recoveryCustom" -> <<"Next">>
      [] h = "rh500"          -> <<"AbortWithStatusJSON500">>
      [] h = "rhCustom"       -> <<"JSON500">>

\* the effect of one call of a handler body on the context
Effect(c, op, r) ==
    CASE op = "Set"                    -> Set(c, "k", r)
      [] op = "Abort"                  -> Abort(c)
      [] op = "AbortWithStatus"        -> AbortWithStatus(c, 403)
      [] op = "AbortWithStatusJSON"    -> AbortWithStatusJSON(c, 403)
      [] op = "JSON404"                -> JSON(c, 404)
      [] op = "AbortWithStatusJSON408" -> AbortWithStatusJSON(c, 408)
      [] op = "JSON408"                -> JSON(c, 408)
      [] op = "AbortWithStatusJSON500" -> AbortWithStatusJSON(c, 500)
      [] op = "JSON500"                -> JSON(c, 500)
      [] OTHER                         -> c

\* the timeout middleware, with the default and with a custom config.Handler
TimeoutKinds == {"timeout", "timeoutCustom"}

\* config.Handler of a timeout middleware
ConfigHandler(h) == IF h = "timeout" THEN "th408" ELSE "thCustom"

\* recovery.go: the recovery middleware, with the default response and with a
\* custom config.Handler
RecoveryKinds == {"recovery", "recoveryCustom"}

\* what the deferred function of a recovery middleware does with the panic:
\* AbortWithStatusJSON(500), or config.Handler, here the handler the
\* documentation gives, which answers with c.JSON(500, ...)
RecoveryHandler(h) == IF h = "recovery" THEN "rh500" ELSE "rhCustom"

(***************************************************************************)
(* drift.go: Engine.                                                       *)
(***************************************************************************)
\* router.go: the methods Any registers a route under, in its order
AnyMethods == <<"GET", "POST", "PUT", "DELETE", "PATCH", "OPTIONS", "HEAD">>

\* the keys of engine.trees
Methods == {AnyMethods[j] : j \in 1 .. Len(AnyMethods)}

NoTree == <<>>

\* the assignments of ServeHTTP without c.store = make(map[string]any)
resetContextKeepsStore(c, r) ==
    [c EXCEPT !.Request = r, !.Params = EmptyMap,
              !.index = -1, !.aborted = FALSE, !.statusCode = 200]

\* the assignments of ServeHTTP to the context it took from the pool
resetContext(c, r) ==
    [c EXCEPT !.Request = r, !.Params = EmptyMap, !.store = EmptyMap,
              !.index = -1, !.aborted = FALSE, !.statusCode = 200]

\* the route search of handleRequest looking in the GET tree for every method
findRouteAnyMethod(ts, req) == getValue(ts["GET"], req.path)

\* the outcome of the route search of handleRequest
findRoute(ts, req) ==
    IF ts[req.method] # NoTree
    THEN getValue(ts[req.method], req.path)
    ELSE NotFound

\* the assignments of handleRequest to the context before it calls c.Next()
handleRequest(c, ts, req) ==
    LET res == findRoute(ts, req)
    IN  IF res.handlers # NilH
        THEN Set([c EXCEPT !.handlers = res.handlers[1], !.Params = res.params],
                 "_fullPath", res.fullPath)
        ELSE [c EXCEPT !.handlers = <<"notFound">>]

(***************************************************************************)
(* The goroutines.  A call stack is a sequence of frames, the last one on  *)
(* top: ServeHTTP ("serve"), Context.Next ("next"), a handler body ("h")   *)
(* or the timeout middleware ("timeout").                                  *)
(***************************************************************************)
Frame(k, pc, pos, h) ==
    [k |-> k, pc |-> pc, pos |-> pos, h |-> h, child |-> 0, tmp |-> 0,
     deadline |-> "pending"]

ServeFrame == Frame("serve", "acquire", -1, "")

NextFrame == Frame("next", "inc", -1, "")

\* the goroutines that may exist: one per request and one started by a timeout
\* middleware
UnitIds == 1 .. MaxReqs + 1

Running(u) == u \in DOMAIN units /\ units[u].st = "run"

Top(u) == units[u].stack[Len(units[u].stack)]

At2(u, k, pc) == Running(u) /\ Top(u).k = k /\ Top(u).pc = pc

SetTop(st, f) == [st EXCEPT ![Len(st)] = f]

Pop(st) == SubSeq(st, 1, Len(st) - 1)

\* the unit after its top frame returned: a goroutine ends with its last frame
Return(unit) ==
    [unit EXCEPT !.stack = Pop(@),
                 !.st = IF Len(unit.stack) = 1 THEN "done" ELSE "run"]

\* a panic recovered by the caller of the frame that raised it
FaultCaught(unit) == [unit EXCEPT !.stack = Pop(@)]

\* the unit after a panic no frame recovers
Fault(unit) == [unit EXCEPT !.stack = <<>>, !.st = "panic"]

\* the frames of a stack that defer a recover(): the recovery middlewares
Recovering(st) ==
    {k \in 1 .. Len(st) : st[k].k = "h" /\ st[k].h \in RecoveryKinds}

\* a panic: the stack unwinds to the innermost frame that defers a recover(),
\* whose deferred function runs in its place and returns to the frame's
\* caller; with no such frame the goroutine ends with the panic
unwind(unit) ==
    IF Recovering(unit.stack) = {} THEN Fault(unit)
    ELSE LET k == CHOOSE j \in Recovering(unit.stack) :
                      \A i \in Recovering(unit.stack) : i <= j
         IN  [unit EXCEPT !.stack = Append(SubSeq(@, 1, k - 1),
                                           Frame("h", 1, -1,
                                                 RecoveryHandler(unit.stack[k].h)))]

\* c := engine.pool.Get() returning a fresh context, and the reset
AcquireNew(u) ==
    /\ At2(u, "serve", "acquire")
    /\ Len(ctxs) < MaxCtx
    /\ ctxs' = Append(ctxs, resetContext(ZeroContext, units[u].req))
    /\ units' = [units EXCEPT ![u].ctx = Len(ctxs) + 1,
                              ![u].stack = SetTop(@, [Top(u) EXCEPT !.pc = "handle"])]
    /\ UNCHANGED <<trees, reqs, pool, ran, calls, post, ncalls, first, fired>>
    /\ UNCHANGED treeVars
    /\ UNCHANGED grpVars

\* c := engine.pool.Get() returning a context put back earlier, and the reset
AcquirePooled(u, c) ==
    /\ At2(u, "serve", "acquire")
    /\ c \in pool
    /\ pool' = pool \ {c}
    /\ ctxs' = [ctxs EXCEPT ![c] = resetContext(@, units[u].req)]
    /\ units' = [units EXCEPT ![u].ctx = c, ![u].reused = TRUE,
                              ![u].stack = SetTop(@, [Top(u) EXCEPT !.pc = "handle"])]
    /\ UNCHANGED <<trees, reqs, ran, calls, post, ncalls, first, fired>>
    /\ UNCHANGED treeVars
    /\ UNCHANGED grpVars

\* engine.handleRequest(c) up to its call of c.Next()
HandleRequest(u) ==
    /\ At2(u, "serve", "handle")
    /\ LET c   == units[u].ctx
           new == handleRequest(ctxs[c], trees, reqs[units[u].req])
       IN  /\ ctxs' = [ctxs EXCEPT ![c] = new]
           /\ ran' = [ran EXCEPT ![units[u].req] = Append(@, new.handlers)]
    /\ units' = [units EXCEPT ![u].stack =
                    Append(SetTop(@, [Top(u) EXCEPT !.pc = "release"]), NextFrame)]
    /\ UNCHANGED <<trees, reqs, pool, calls, post, ncalls, first, fired>>
    /\ UNCHANGED treeVars
    /\ UNCHANGED grpVars

\* the end of ServeHTTP: the status code it logs, and engine.pool.Put(c)
Release(u) ==
    /\ At2(u, "serve", "release")
    /\ pool' = pool \cup {units[u].ctx}
    /\ units' = [units EXCEPT
                    ![u] = Return([@ EXCEPT !.logged = ctxs[units[u].ctx].statusCode])]
    /\ UNCHANGED <<trees, reqs, ctxs, ran, calls, post, ncalls, first, fired>>
    /\ UNCHANGED treeVars
    /\ UNCHANGED grpVars

\* Context.Next: c.index++ (on entry, and after a handler returned)
NextInc(u) ==
    /\ At2(u, "next", "inc")
    /\ ctxs' = [ctxs EXCEPT ![units[u].ctx] = IncIndex(@)]
    /\ units' = [units EXCEPT ![u].stack = SetTop(@, [Top(u) EXCEPT !.pc = "test"])]
    /\ UNCHANGED <<trees, reqs, pool, ran, calls, post, ncalls, first, fired>>
    /\ UNCHANGED treeVars
    /\ UNCHANGED grpVars

\* Context.Next: the loop test, the abort test and the call of the handler
NextTest(u) ==
    /\ At2(u, "next", "test")
    /\ LET c == ctxs[units[u].ctx]
           r == units[u].req
       IN  IF nextStops(c)
           THEN /\ units' = [units EXCEPT ![u] = Return(@)]
                /\ UNCHANGED <<calls, first>>
           ELSE IF ~InRange(c)
           THEN /\ units' = [units EXCEPT ![u] = unwind(@)]
                /\ UNCHANGED <<calls, first>>
           ELSE LET h == At(c.handlers, c.index)
                    f == IF h \in TimeoutKinds
                         THEN Frame("timeout", "spawn", c.index, h)
                         ELSE Frame("h", 1, c.index, h)
                IN  /\ units' = [units EXCEPT ![u].stack =
                                    Append(SetTop(@, [Top(u) EXCEPT !.pc = "inc"]), f)]
                    /\ calls' = [calls EXCEPT ![r] = Append(@, c.index)]
                    /\ first' = IF calls[r] = <<>>
                                THEN [first EXCEPT ![r] = <<c>>]
                                ELSE first
    /\ UNCHANGED <<trees, reqs, ctxs, pool, ran, post, ncalls, fired>>
    /\ UNCHANGED treeVars
    /\ UNCHANGED grpVars

\* one call made by a handler body, and its return after the last one
HandlerStep(u) ==
    /\ Running(u)
    /\ Top(u).k = "h"
    /\ LET f    == Top(u)
           r    == units[u].req
           prog == Prog(f.h)
           op   == prog[f.pc]
           step == [f EXCEPT !.pc = @ + 1]
       IN  IF f.pc > Len(prog)
           THEN /\ units' = [units EXCEPT ![u] = Return(@)]
                /\ UNCHANGED <<ctxs, post, ncalls>>
           ELSE IF op = "Next"
           THEN /\ units' = [units EXCEPT ![u].stack = Append(SetTop(@, step), NextFrame)]
                /\ ncalls' = [ncalls EXCEPT ![r] = @ + 1]
                /\ UNCHANGED <<ctxs, post>>
           ELSE IF op = "Panic"
           THEN /\ units' = [units EXCEPT ![u] = unwind(@)]
                /\ UNCHANGED <<ctxs, post, ncalls>>
           ELSE /\ units' = IF f.pc = Len(prog)
                            THEN [units EXCEPT ![u] = Return(@)]
                            ELSE [units EXCEPT ![u].stack = SetTop(@, step)]
                /\ ctxs' = [ctxs EXCEPT ![units[u].ctx] = Effect(@, op, r)]
                /\ post' = IF op = "Post" THEN [post EXCEPT ![r] = @ \cup {f.pos}]
                           ELSE post
                /\ UNCHANGED ncalls
    /\ UNCHANGED <<trees, reqs, pool, ran, calls, first, fired>>
    /\ UNCHANGED treeVars
    /\ UNCHANGED grpVars

\* a handler that calls c.Next() in a loop calls it once more
SpinAgain(u) ==
    /\ Running(u)
    /\ Top(u).k = "h"
    /\ Top(u).pc <= Len(Prog(Top(u).h))
    /\ Prog(Top(u).h)[Top(u).pc] = "Spin"
    /\ ncalls[units[u].req] < MaxNextCalls
    /\ units' = [units EXCEPT ![u].stack = Append(@, NextFrame)]
    /\ ncalls' = [ncalls EXCEPT ![units[u].req] = @ + 1]
    /\ UNCHANGED <<trees, reqs, ctxs, pool, ran, calls, post, first, fired>>
    /\ UNCHANGED treeVars
    /\ UNCHANGED grpVars

(***************************************************************************)
(* Context.Next when another goroutine may use the same context: the       *)
(* accesses to c.index, c.aborted and c.handlers are not synchronised, so  *)
(* each read and each write is a step of its own.                          *)
(***************************************************************************)
\* c.index++ : the read
NextIncRead(u) ==
    /\ At2(u, "next", "inc")
    /\ units' = [units EXCEPT ![u].stack =
                    SetTop(@, [Top(u) EXCEPT !.pc = "write",
                                             !.tmp = ctxs[units[u].ctx].index])]
    /\ UNCHANGED <<trees, reqs, ctxs, pool, ran, calls, post, ncalls, first, fired>>
    /\ UNCHANGED treeVars
    /\ UNCHANGED grpVars

\* c.index++ : the write of the value read plus one
NextIncWrite(u) ==
    /\ At2(u, "next", "write")
    /\ ctxs' = [ctxs EXCEPT ![units[u].ctx].index = Int8(Top(u).tmp + 1)]
    /\ units' = [units EXCEPT ![u].stack = SetTop(@, [Top(u) EXCEPT !.pc = "check"])]
    /\ UNCHANGED <<trees, reqs, pool, ran, calls, post, ncalls, first, fired>>
    /\ UNCHANGED treeVars
    /\ UNCHANGED grpVars

\* the loop test and the abort test
NextCheck(u) ==
    /\ At2(u, "next", "check")
    /\ units' = [units EXCEPT ![u] =
                    IF nextStops(ctxs[units[u].ctx]) THEN Return(@)
                    ELSE [@ EXCEPT !.stack = SetTop(@, [Top(u) EXCEPT !.pc = "call"])]]
    /\ UNCHANGED <<trees, reqs, ctxs, pool, ran, calls, post, ncalls, first, fired>>
    /\ UNCHANGED treeVars
    /\ UNCHANGED grpVars

\* c.handlers[c.index](c), with c.index and c.handlers read again
NextCall(u) ==
    /\ At2(u, "next", "call")
    /\ LET c == ctxs[units[u].ctx]
           r == units[u].req
       IN  IF ~InRange(c)
           THEN /\ units' = [units EXCEPT ![u] = unwind(@)]
                /\ UNCHANGED <<calls, first>>
           ELSE LET h == At(c.handlers, c.index)
                    f == IF h \in TimeoutKinds
                         THEN Frame("timeout", "spawn", c.index, h)
                         ELSE Frame("h", 1, c.index, h)
                IN  /\ units' = [units EXCEPT ![u].stack =
                                    Append(SetTop(@, [Top(u) EXCEPT !.pc = "inc"]), f)]
                    /\ calls' = [calls EXCEPT ![r] = Append(@, c.index)]
                    /\ first' = IF calls[r] = <<>>
                                THEN [first EXCEPT ![r] = <<c>>]
                                ELSE first
    /\ UNCHANGED <<trees, reqs, ctxs, pool, ran, post, ncalls, fired>>
    /\ UNCHANGED treeVars
    /\ UNCHANGED grpVars

\* timeout.go: go func() { c.Next(); close(done) }()
TimeoutSpawn(u) ==
    /\ At2(u, "timeout", "spawn")
    /\ Len(units) <= Len(reqs)
    /\ units' = Append([units EXCEPT ![u].stack =
                           SetTop(@, [Top(u) EXCEPT !.pc = "select",
                                                    !.child = Len(units) + 1])],
                       [req |-> units[u].req, ctx |-> units[u].ctx,
                        stack |-> <<NextFrame>>, st |-> "run", reused |-> FALSE,
                        detached |-> TRUE, logged |-> 0])
    /\ UNCHANGED <<trees, reqs, ctxs, pool, ran, calls, post, ncalls, first, fired>>
    /\ UNCHANGED treeVars
    /\ UNCHANGED grpVars

\* the goroutine started by the middleware of u has closed done
ChainDone(u) == units[Top(u).child].st = "done"

\* the timer of context.WithTimeout fires: ctx.Done() is closed with
\* DeadlineExceeded.  The frame keeps whether the chain had completed by then.
\* A middleware already waiting in its select, with done still open, is woken
\* for the case ctx.Done().
DeadlineElapses(u) ==
    /\ Running(u)
    /\ Top(u).k = "timeout"
    /\ Top(u).pc \in {"select", "blocked"}
    /\ Top(u).deadline = "pending"
    /\ Top(u).pc = "blocked" => ~ChainDone(u)
    /\ units' = [units EXCEPT ![u].stack =
                    SetTop(@, [Top(u) EXCEPT
                                  !.deadline = IF ChainDone(u) THEN "late" ELSE "first",
                                  !.pc = IF @ = "blocked" THEN "fire" ELSE @])]
    /\ UNCHANGED <<trees, reqs, ctxs, pool, ran, calls, post, ncalls, first, fired>>
    /\ UNCHANGED treeVars
    /\ UNCHANGED grpVars

\* timeout.go: select finds neither channel ready and the goroutine waits
TimeoutBlock(u) ==
    /\ At2(u, "timeout", "select")
    /\ Top(u).deadline = "pending"
    /\ ~ChainDone(u)
    /\ units' = [units EXCEPT ![u].stack = SetTop(@, [Top(u) EXCEPT !.pc = "blocked"])]
    /\ UNCHANGED <<trees, reqs, ctxs, pool, ran, calls, post, ncalls, first, fired>>
    /\ UNCHANGED treeVars
    /\ UNCHANGED grpVars

\* timeout.go: case <-done, found ready by select (whatever else is ready) or
\* waking the waiting goroutine
TimeoutDone(u) ==
    /\ At2(u, "timeout", "select") \/ At2(u, "timeout", "blocked")
    /\ ChainDone(u)
    /\ units' = [units EXCEPT ![u] = Return(@)]
    /\ UNCHANGED <<trees, reqs, ctxs, pool, ran, calls, post, ncalls, first, fired>>
    /\ UNCHANGED treeVars
    /\ UNCHANGED grpVars

\* timeout.go: case <-ctx.Done() with the deadline exceeded, found ready by
\* select (whatever else is ready) or having woken the waiting goroutine:
\* config.Handler(c), after which the middleware returns
TimeoutFire(u) ==
    /\ \/ At2(u, "timeout", "select") /\ Top(u).deadline # "pending"
       \/ At2(u, "timeout", "fire")
    /\ units' = [units EXCEPT ![u].stack =
                    SetTop(@, Frame("h", 1, -1, ConfigHandler(Top(u).h)))]
    /\ fired' = [fired EXCEPT ![units[u].req] = @ + 1]
    /\ UNCHANGED <<trees, reqs, ctxs, pool, ran, calls, post, ncalls, first>>
    /\ UNCHANGED treeVars
    /\ UNCHANGED grpVars

\* timeout.go: case <-ctx.Done() with the request context cancelled before the
\* deadline: ctx.Err() is not DeadlineExceeded and the middleware returns
TimeoutCancel(u) ==
    /\ At2(u, "timeout", "select") \/ At2(u, "timeout", "blocked")
    /\ Top(u).deadline = "pending"
    /\ Top(u).pc = "blocked" => ~ChainDone(u)
    /\ units' = [units EXCEPT ![u] = Return(@)]
    /\ UNCHANGED <<trees, reqs, ctxs, pool, ran, calls, post, ncalls, first, fired>>
    /\ UNCHANGED treeVars
    /\ UNCHANGED grpVars

(***************************************************************************)
(* The route tree under registration and lookup.                           *)
(***************************************************************************)
\* the patterns handed to addRoute
Patterns ==
    { <<"/">>, <<"/", "a">>, <<"/", "a", "b">>, <<"/", "a", "c">>,
      <<"/", "a", "/", "b">>, <<"/", "b">>,
      <<"/", "u", "/", ":", "i">>, <<"/", "u", "/", ":", "n">>,
      <<"/", "u", "/", "n">>, <<"/", "u", "/", ":", "i", "/", "p">>,
      <<"/", "f", "/", "*", "r">>, <<"/", "f", "/", "*", "r", "/", "m">>,
      <<"/", "a", "/", "*", "r">>,
      <<"/", "u", "/", ":", "i", "/", ":", "k">>,
      <<"/", "u", "/", ":", "i", ":", "n">>,
      <<"/", "u", "/", ":", "i", "/", "c">> }

\* the request paths handed to getValue
Paths ==
    { <<"/">>, <<"/", "a">>, <<"/", "a", "b">>, <<"/", "a", "/", "b">>,
      <<"/", "u", "/", "x">>, <<"/", "u", "/">>, <<"/", "u", "/", "x", "/", "p">>,
      <<"/", "u", "/", "x", "/", "y">>, <<"/", "f", "/", "a", "/", "b">>,
      <<"/", "f", "/">>, <<"/", "f">>, <<"/", "a", "/", "x">>,
      <<"/", "u", "/", "x", "/", "c">>, <<"/", "u", "/", "/", "p">> }

NoLookup == [path |-> <<>>, res |-> NotFound]

\* no route tree under registration
TreeIdle ==
    /\ root = NewNode
    /\ registered = <<>>
    /\ lookup = NoLookup

\* drift.go: New(), the engine's own group: no handlers, base path "/"
EngineGroup ==
    [handlers |-> <<>>, basePath |-> <<"/">>, parent |-> 0,
     inherited |-> <<>>, own |-> <<>>, arr |-> 0, cap |-> 0]

\* no group besides the engine's own, no route registered through a group
GroupIdle ==
    /\ groups = <<EngineGroup>>
    /\ bound = <<>>

\* one goroutine per request, about to enter ServeHTTP
NewUnits(rs) ==
    [r \in 1 .. Len(rs) |->
        [req |-> r, ctx |-> 0, stack |-> <<ServeFrame>>, st |-> "run",
         reused |-> FALSE, detached |-> FALSE, logged |-> 0]]

\* the engine serving the requests rs over the route tables ts
EngineInit(ts, rs) ==
    /\ trees = ts
    /\ reqs = rs
    /\ ctxs = <<>>
    /\ pool = {}
    /\ units = NewUnits(rs)
    /\ ran = [r \in 1 .. Len(rs) |-> <<>>]
    /\ calls = [r \in 1 .. Len(rs) |-> <<>>]
    /\ post = [r \in 1 .. Len(rs) |-> {}]
    /\ ncalls = [r \in 1 .. Len(rs) |-> 0]
    /\ first = [r \in 1 .. Len(rs) |-> <<>>]
    /\ fired = [r \in 1 .. Len(rs) |-> 0]

NoTrees == [m \in Methods |-> NoTree]

InitTree ==
    /\ TreeIdle
    /\ GroupIdle
    /\ EngineInit(NoTrees, <<>>)

\* one call of addRoute; the chain registered is identified by the ordinal of
\* the call.  A panic leaves the tree as mutated up to the panic.
Register(p) ==
    /\ Len(registered) < MaxRoutes
    /\ LET chain == <<Len(registered) + 1>>
           r     == addRoute(root, p, Some(chain))
       IN  /\ root' = r.t
           /\ registered' = Append(registered,
                                   [path |-> p, chain |-> chain, err |-> r.err])
    /\ lookup' = NoLookup
    /\ UNCHANGED engVars
    /\ UNCHANGED grpVars

\* getValue with a write to a node: the priority of the root raised, as addRoute
\* does on its way in
treeAfterGetValueCounting(t, path) == [t EXCEPT ![1].priority = @ + 1]

\* the arena after getValue(path): the loop assigns to its local n, path and
\* params only, to no field of a node
treeAfterGetValue(t, path) == t

\* one call of getValue, after a registration or, in trees of up to MaxRepeat
\* registrations, after another lookup
Lookup(path) ==
    /\ lookup = NoLookup \/ Len(registered) <= MaxRepeat
    /\ lookup' = [path |-> path, res |-> getValue(root, path)]
    /\ lookup' # lookup
    /\ root' = treeAfterGetValue(root, path)
    /\ UNCHANGED registered
    /\ UNCHANGED engVars
    /\ UNCHANGED grpVars

NextTree ==
    \/ \E p \in Patterns : Register(p)
    \/ \E path \in Paths : Lookup(path)

SpecTree == InitTree /\ [][NextTree]_vars


(***************************************************************************)
(* One request through ServeHTTP over a single route, for every chain.     *)
(***************************************************************************)
\* Engine.addRoute with one route table for all the methods
engineAddRouteOneTable(ts, method, path, handlers) ==
    IF path[1] # "/"
    THEN [ts |-> ts, err |-> "path must begin with '/'"]
    ELSE LET r == addRoute(IF ts["GET"] = NoTree THEN NewNode ELSE ts["GET"],
                           path, Some(handlers))
         IN  [ts |-> [ts EXCEPT !["GET"] = r.t], err |-> r.err]

\* Engine.addRoute: the route tables after registering a route
engineAddRoute(ts, method, path, handlers) ==
    IF path[1] # "/"
    THEN [ts |-> ts, err |-> "path must begin with '/'"]
    ELSE LET r == addRoute(IF ts[method] = NoTree THEN NewNode ELSE ts[method],
                           path, Some(handlers))
         IN  [ts |-> [ts EXCEPT ![method] = r.t], err |-> r.err]

\* the handlers a chain is made of
ChainKinds == {"pass", "wrap", "set", "abort", "abortSt", "abortJS", "abortNx", "spin"}

\* the chains of one to three handlers, at most one of them looping on Next
Chains ==
    LET all == {<<a>> : a \in ChainKinds}
               \cup {<<a, b>> : a \in ChainKinds, b \in ChainKinds}
               \cup {<<a, b, c>> : a \in ChainKinds, b \in ChainKinds, c \in ChainKinds}
    IN  {ch \in all : Cardinality({k \in 1 .. Len(ch) : ch[k] = "spin"}) <= 1}

\* the largest value of the cursor, an int8
MaxInt8 == 127

\* chains of handlers that only return, as long as the cursor can count and
\* one longer
LongChains == {[k \in 1 .. n |-> "pass"] : n \in {MaxInt8, MaxInt8 + 1}}

ChainRequest == [method |-> "GET", path |-> <<"/", "a">>]

InitChain ==
    /\ TreeIdle
    /\ GroupIdle
    /\ \E ch \in Chains \cup LongChains :
          EngineInit(engineAddRoute(NoTrees, "GET", ChainRequest.path, ch).ts,
                     <<ChainRequest>>)

NextChain ==
    \/ \E u \in UnitIds : AcquireNew(u)
    \/ \E u \in UnitIds : HandleRequest(u)
    \/ \E u \in UnitIds : NextInc(u)
    \/ \E u \in UnitIds : NextTest(u)
    \/ \E u \in UnitIds : HandlerStep(u)
    \/ \E u \in UnitIds : SpinAgain(u)
    \/ \E u \in UnitIds : Release(u)

SpecChain == InitChain /\ [][NextChain]_vars

(***************************************************************************)
(* Concurrent requests through ServeHTTP over a fixed route table.         *)
(***************************************************************************)
\* the routes registered before serving starts
EngineRoutes ==
    << [method |-> "GET", path |-> <<"/", "u", "/", ":", "i">>,
        chain |-> <<"set", "abort", "pass">>],
       [method |-> "GET", path |-> <<"/", "a">>, chain |-> <<"wrap", "pass">>] >>

RECURSIVE registerAll(_, _)
registerAll(ts, routes) ==
    IF routes = <<>> THEN ts
    ELSE registerAll(engineAddRoute(ts, routes[1].method, routes[1].path,
                                    routes[1].chain).ts, Tail(routes))

\* the requests a client may send
RequestSet ==
    { [method |-> "GET", path |-> <<"/", "u", "/", "x">>],
      [method |-> "GET", path |-> <<"/", "a">>],
      [method |-> "GET", path |-> <<"/", "z">>],
      [method |-> "POST", path |-> <<"/", "a">>] }

InitEngine ==
    /\ TreeIdle
    /\ GroupIdle
    /\ \E rs \in [1 .. MaxReqs -> RequestSet] :
          EngineInit(registerAll(NoTrees, EngineRoutes), rs)

NextEngine ==
    \/ \E u \in UnitIds : AcquireNew(u)
    \/ \E u \in UnitIds : \E c \in 1 .. MaxCtx : AcquirePooled(u, c)
    \/ \E u \in UnitIds : HandleRequest(u)
    \/ \E u \in UnitIds : NextInc(u)
    \/ \E u \in UnitIds : NextTest(u)
    \/ \E u \in UnitIds : HandlerStep(u)
    \/ \E u \in UnitIds : Release(u)

SpecEngine == InitEngine /\ [][NextEngine]_vars

(***************************************************************************)
(* Concurrent requests, one route with a handler that panics and no        *)
(* recovery middleware.                                                    *)
(***************************************************************************)
FaultRoutes ==
    << [method |-> "GET", path |-> <<"/", "b">>, chain |-> <<"set", "panic", "pass">>],
       [method |-> "GET", path |-> <<"/", "a">>, chain |-> <<"wrap", "set">>] >>

FaultRequestSet ==
    { [method |-> "GET", path |-> <<"/", "b">>],
      [method |-> "GET", path |-> <<"/", "a">>],
      [method |-> "GET", path |-> <<"/", "z">>] }

InitFault ==
    /\ TreeIdle
    /\ GroupIdle
    /\ \E rs \in [1 .. MaxReqs -> FaultRequestSet] :
          EngineInit(registerAll(NoTrees, FaultRoutes), rs)

SpecFault == InitFault /\ [][NextEngine]_vars

(***************************************************************************)
(* Concurrent requests over routes wrapped by the recovery middleware,     *)
(* with the default response and with a custom handler.                    *)
(***************************************************************************)
RecoveryRoutes ==
    << [method |-> "GET", path |-> <<"/", "b">>,
        chain |-> <<"recovery", "set", "panic", "pass">>],
       [method |-> "GET", path |-> <<"/", "c">>,
        chain |-> <<"recoveryCustom", "set", "panic", "pass">>],
       [method |-> "GET", path |-> <<"/", "a">>,
        chain |-> <<"recovery", "wrap", "set">>] >>

RecoveryRequestSet ==
    { [method |-> "GET", path |-> <<"/", "b">>],
      [method |-> "GET", path |-> <<"/", "c">>],
      [method |-> "GET", path |-> <<"/", "a">>] }

InitRecovery ==
    /\ TreeIdle
    /\ GroupIdle
    /\ \E rs \in [1 .. MaxReqs -> RecoveryRequestSet] :
          EngineInit(registerAll(NoTrees, RecoveryRoutes), rs)

SpecRecovery == InitRecovery /\ [][NextEngine]_vars

(***************************************************************************)
(* One request dispatched over routes registered before serving starts,    *)
(* with the loop of getValue taken one pass at a time.                     *)
(***************************************************************************)
\* one pass of the walk loop of getValue at node n with the unconsumed path
\* path0: the node, path and params of the next pass (continue walk), or the
\* values returned
getValuePass(t, n, path0, params) ==
    LET prefix == t[n].path
        return(res) == [continue |-> FALSE, n |-> n, path |-> path0,
                        params |-> params, res |-> res]
        continueWalk(m, p, ps) == [continue |-> TRUE, n |-> m, path |-> p,
                                   params |-> ps, res |-> NotFound]
    IN  IF Len(path0) > Len(prefix)
        THEN IF hasPrefix(path0, prefix)
             THEN LET path == From(path0, Len(prefix))
                      idxc == path[1]
                      hits == {k \in 0 .. Len(t[n].indices) - 1 :
                                  At(t[n].indices, k) = idxc}
                  IN  IF hits # {}
                      THEN continueWalk(At(t[n].children,
                                           CHOOSE k \in hits : \A k2 \in hits : k <= k2),
                                        path, params)
                      ELSE IF t[n].wildChild
                      THEN LET w == t[n].children[1]
                           IN  IF t[w].nType = "param"
                               THEN LET end == paramEnd(path)
                                        ps  == MapSet(params, paramName(t[w].path),
                                                      Slice(path, 0, end))
                                    IN  IF end < Len(path)
                                        THEN IF Len(t[w].children) > 0
                                             THEN continueWalk(t[w].children[1],
                                                               From(path, end), ps)
                                             ELSE return(NotFound)
                                        ELSE return([handlers |-> t[w].handlers,
                                                     params |-> ps,
                                                     fullPath |-> t[w].fullPath,
                                                     err |-> "ok"])
                               ELSE IF t[w].nType = "catchAll"
                               THEN return([handlers |-> t[w].handlers,
                                            params |-> MapSet(params,
                                                              catchAllName(t[w].path),
                                                              catchAllValue(path)),
                                            fullPath |-> t[w].fullPath,
                                            err |-> "ok"])
                               ELSE return([NotFound EXCEPT !.err = "invalid node type"])
                      ELSE return(NotFound)
             ELSE return(NotFound)
        ELSE IF path0 = prefix
        THEN IF t[n].handlers # NilH
             THEN return([handlers |-> t[n].handlers, params |-> params,
                          fullPath |-> t[n].fullPath, err |-> "ok"])
             ELSE return(NotFound)
        ELSE return(NotFound)

\* the assignments of handleRequest to the context once getValue returned res
bindRoute(c, res) ==
    IF res.handlers # NilH
    THEN Set([c EXCEPT !.handlers = res.handlers[1], !.Params = res.params],
             "_fullPath", res.fullPath)
    ELSE [c EXCEPT !.handlers = <<"notFound">>]

\* the frame of root.getValue(path) on entry: the root, the whole path, an
\* empty params map
GetValueFrame(path) ==
    [k |-> "getValue", pc |-> "walk", pos |-> -1, h |-> "", child |-> 0,
     tmp |-> 0, deadline |-> "pending", n |-> 1, path |-> path,
     params |-> EmptyMap]

\* the routes the application registers
ServeRoutes ==
    << [method |-> "GET", path |-> <<"/", "a">>, chain |-> <<"wrap", "set">>],
       [method |-> "GET", path |-> <<"/", "a", "/", "b">>,
        chain |-> <<"spin", "abort">>],
       [method |-> "GET", path |-> <<"/", "u", "/", ":", "i">>,
        chain |-> <<"set", "abort", "pass">>],
       [method |-> "GET", path |-> <<"/", "u", "/", ":", "i", "/", "p">>,
        chain |-> <<"abortNx", "pass">>],
       [method |-> "GET", path |-> <<"/", "f", "/", "*", "r">>,
        chain |-> <<"spin">>] >>

\* the requests a client may send
ServeRequestSet ==
    { [method |-> "GET", path |-> <<"/", "a">>],
      [method |-> "GET", path |-> <<"/", "a", "/", "b">>],
      [method |-> "GET", path |-> <<"/", "u", "/", "x">>],
      [method |-> "GET", path |-> <<"/", "u", "/", "x", "/", "p">>],
      [method |-> "GET", path |-> <<"/", "u", "/", "/", "p">>],
      [method |-> "GET", path |-> <<"/", "f", "/", "x", "/", "y">>],
      [method |-> "GET", path |-> <<"/", "z">>],
      [method |-> "POST", path |-> <<"/", "a">>] }

\* an engine without routes and one request on its way in
InitServe ==
    /\ TreeIdle
    /\ GroupIdle
    /\ \E req \in ServeRequestSet : EngineInit(NoTrees, <<req>>)

\* Engine.addRoute of route k, before the first request is taken up
AddRoute(k) ==
    /\ Len(registered) < MaxRoutes
    /\ ctxs = <<>>
    /\ \E r \in {engineAddRoute(trees, ServeRoutes[k].method, ServeRoutes[k].path,
                                 ServeRoutes[k].chain)} :
          /\ trees' = r.ts
          /\ registered' = Append(registered,
                                  [path |-> ServeRoutes[k].path,
                                   chain |-> ServeRoutes[k].chain, err |-> r.err])
    /\ UNCHANGED <<root, lookup>>
    /\ UNCHANGED <<reqs, ctxs, pool, units, ran, calls, post, ncalls, first, fired>>
    /\ UNCHANGED grpVars

\* handleRequest with no tree for the method: the not-found chain
HandleRequestNoTree(u) ==
    /\ Running(u)
    /\ trees[reqs[units[u].req].method] = NoTree
    /\ HandleRequest(u)

\* handleRequest with a tree for the method: root.getValue(path) is entered
GetValueCall(u) ==
    /\ At2(u, "serve", "handle")
    /\ trees[reqs[units[u].req].method] # NoTree
    /\ units' = [units EXCEPT ![u].stack =
                    Append(@, GetValueFrame(reqs[units[u].req].path))]
    /\ UNCHANGED <<trees, reqs, ctxs, pool, ran, calls, post, ncalls, first, fired>>
    /\ UNCHANGED treeVars
    /\ UNCHANGED grpVars

\* one pass of the loop of getValue; when it returns, handleRequest assigns the
\* chain and the params to the context and calls c.Next()
GetValuePass(u) ==
    /\ At2(u, "getValue", "walk")
    /\ \E s \in {getValuePass(trees[reqs[units[u].req].method], Top(u).n,
                               Top(u).path, Top(u).params)} :
          IF s.continue
          THEN /\ units' = [units EXCEPT ![u].stack =
                               SetTop(@, [Top(u) EXCEPT !.n = s.n, !.path = s.path,
                                                        !.params = s.params])]
               /\ UNCHANGED <<ctxs, ran>>
          ELSE \E new \in {bindRoute(ctxs[units[u].ctx], s.res)} :
                  /\ ctxs' = [ctxs EXCEPT ![units[u].ctx] = new]
                  /\ ran' = [ran EXCEPT ![units[u].req] = Append(@, new.handlers)]
                  /\ units' = [units EXCEPT ![u].stack =
                                  Append(SetTop(Pop(@), [ServeFrame EXCEPT !.pc = "release"]),
                                         NextFrame)]
    /\ UNCHANGED <<trees, reqs, pool, calls, post, ncalls, first, fired>>
    /\ UNCHANGED treeVars
    /\ UNCHANGED grpVars

\* what the goroutine of a request does next
Run(u) ==
    \/ AcquireNew(u)
    \/ HandleRequestNoTree(u)
    \/ GetValueCall(u)
    \/ GetValuePass(u)
    \/ NextInc(u)
    \/ NextTest(u)
    \/ HandlerStep(u)
    \/ Release(u)

NextServe ==
    \/ \E k \in 1 .. Len(ServeRoutes) : AddRoute(k)
    \/ \E u \in UnitIds : AcquireNew(u)
    \/ \E u \in UnitIds : HandleRequestNoTree(u)
    \/ \E u \in UnitIds : GetValueCall(u)
    \/ \E u \in UnitIds : GetValuePass(u)
    \/ \E u \in UnitIds : NextInc(u)
    \/ \E u \in UnitIds : NextTest(u)
    \/ \E u \in UnitIds : HandlerStep(u)
    \/ \E u \in UnitIds : SpinAgain(u)
    \/ \E u \in UnitIds : Release(u)

SpecServe == InitServe /\ [][NextServe]_vars

\* the scheduler runs every goroutine that can take a step
SpecServeFair == SpecServe /\ \A u \in UnitIds : WF_vars(Run(u))

(***************************************************************************)
(* Concurrent requests over routes that use the timeout middleware.        *)
(***************************************************************************)
TimeoutRoutes ==
    << [method |-> "GET", path |-> <<"/", "s">>, chain |-> <<"timeout", "set">>],
       [method |-> "GET", path |-> <<"/", "c">>,
        chain |-> <<"timeoutCustom", "set", "pass">>],
       [method |-> "GET", path |-> <<"/", "a">>, chain |-> <<"pass">>] >>

\* the requests to a route guarded by the timeout middleware
TimeoutRequestSet ==
    { [method |-> "GET", path |-> <<"/", "s">>],
      [method |-> "GET", path |-> <<"/", "c">>] }

\* the requests to a route without it
PlainRequestSet == { [method |-> "GET", path |-> <<"/", "a">>] }

\* one request to a guarded route and one to a plain route, in flight together
InitTimeout ==
    /\ TreeIdle
    /\ GroupIdle
    /\ \E t \in TimeoutRequestSet : \E p \in PlainRequestSet :
          EngineInit(registerAll(NoTrees, TimeoutRoutes), <<t, p>>)

NextTimeout ==
    \/ \E u \in UnitIds : AcquireNew(u)
    \/ \E u \in UnitIds : \E c \in 1 .. MaxCtx : AcquirePooled(u, c)
    \/ \E u \in UnitIds : HandleRequest(u)
    \/ \E u \in UnitIds : NextIncRead(u)
    \/ \E u \in UnitIds : NextIncWrite(u)
    \/ \E u \in UnitIds : NextCheck(u)
    \/ \E u \in UnitIds : NextCall(u)
    \/ \E u \in UnitIds : HandlerStep(u)
    \/ \E u \in UnitIds : TimeoutSpawn(u)
    \/ \E u \in UnitIds : DeadlineElapses(u)
    \/ \E u \in UnitIds : TimeoutBlock(u)
    \/ \E u \in UnitIds : TimeoutDone(u)
    \/ \E u \in UnitIds : TimeoutFire(u)
    \/ \E u \in UnitIds : TimeoutCancel(u)
    \/ \E u \in UnitIds : Release(u)

SpecTimeout == InitTimeout /\ [][NextTimeout]_vars

(***************************************************************************)
(* Route groups: RouterGroup.Group, Use and handle registering routes      *)
(* through Engine.addRoute.  A handler is identified by the ordinal at     *)
(* which it was given.                                                     *)
(***************************************************************************)
\* joinPaths
joinPaths(absolutePath, relativePath) ==
    IF relativePath = <<>>
    THEN absolutePath
    ELSE LET finalPath == IF absolutePath = <<>> THEN <<"/">> ELSE absolutePath
         IN  IF relativePath[1] = "/"
             THEN IF finalPath = <<"/">> THEN relativePath
                  ELSE finalPath \o relativePath
             ELSE IF finalPath[Len(finalPath)] = "/"
             THEN finalPath \o relativePath
             ELSE finalPath \o <<"/">> \o relativePath

\* RouterGroup.calculateAbsolutePath
calculateAbsolutePath(group, relativePath) == joinPaths(group.basePath, relativePath)

\* combineHandlers with the route's handlers copied ahead of the group's
combineHandlersRouteFirst(group, handlers) == handlers \o group.handlers

\* RouterGroup.combineHandlers: a new slice, the group's handlers then the given
combineHandlers(group, handlers) == group.handlers \o handlers

\* the handlers given so far
Given ==
    UNION ({ {groups[g].own[j] : j \in 1 .. Len(groups[g].own)} : g \in 1 .. Len(groups) }
           \cup { {bound[b].hs[j] : j \in 1 .. Len(bound[b].hs)} : b \in 1 .. Len(bound) })

\* k handlers not given before
NewHandlers(k) == [j \in 1 .. k |-> Cardinality(Given) + j]

\* the numbers of handlers one call of Group, of Use, of a registration is given
GroupCounts == {0, 1}

UseCounts == {1}

RouteCounts == {1, 2}

\* the prefixes of derived groups and the relative paths of routes
GroupPrefixes == { <<"/", "g">>, <<"h", "/">>, <<"/">>, <<>> }

RoutePaths == { <<"/", "x">>, <<"y">>, <<"/">>, <<>> }

\* the ids of the groups
GroupIds == 1 .. MaxGroups + 1

\* addRoute panicked: the configuration is dead
Panicked == \E b \in 1 .. Len(bound) : bound[b].err # "ok"

\* the middleware given to the ancestors of group g, from the engine's group
\* down, and to g itself, as of now
RECURSIVE Lineage(_)
Lineage(g) ==
    IF g = 0 THEN <<>> ELSE Lineage(groups[g].parent) \o groups[g].own

\* the slice group.handlers is the field handlers (its elements), arr (the
\* array behind it, 0 for the nil slice) and cap (the length of that array)

\* a new array for the slice of group g: one that no other group's slice lies in
FreshArray(g) ==
    IF \A g2 \in 1 .. Len(groups) : g2 # g => groups[g2].arr # g
    THEN g
    ELSE CHOOSE a \in Len(groups) + 2 .. 2 * Len(groups) + 2 :
             /\ \A g2 \in 1 .. Len(groups) : groups[g2].arr # a
             /\ \A a2 \in Len(groups) + 2 .. a - 1 :
                    \E g2 \in 1 .. Len(groups) : groups[g2].arr = a2

\* combineHandlers by append(group.handlers, handlers...): the array of the
\* group serves where it has room
combinedSliceAppended(group, handlers, fresh) ==
    IF Len(group.handlers) + Len(handlers) <= group.cap
    THEN [arr |-> group.arr, cap |-> group.cap]
    ELSE [arr |-> fresh, cap |-> Len(group.handlers) + Len(handlers)]

\* RouterGroup.combineHandlers: make([]HandlerFunc, finalSize), a new array of
\* exactly the merged length
combinedSlice(group, handlers, fresh) ==
    [arr |-> fresh, cap |-> Len(group.handlers) + Len(handlers)]

\* the room a new array of append is given beyond the elements appended: none,
\* or room for one more
Spares == {0, 1}

\* append(group.handlers, middleware...) of k elements: in place where the
\* array has room, else in a new array of capacity c
appendedSlice(group, k, fresh, c) ==
    IF Len(group.handlers) + k <= group.cap
    THEN [arr |-> group.arr, cap |-> group.cap]
    ELSE [arr |-> fresh, cap |-> c]

\* the groups after the elements are written to the front of the array arr:
\* every slice that lies in the array shows them as far as it reaches
stored(gs, arr, elements) ==
    [g \in 1 .. Len(gs) |->
        IF gs[g].arr = arr
        THEN [gs[g] EXCEPT !.handlers =
                 [p \in 1 .. Len(gs[g].handlers) |->
                     IF p <= Len(elements) THEN elements[p] ELSE gs[g].handlers[p]]]
        ELSE gs[g]]

\* group.Group(relativePath, handlers...)
Group(g, relativePath, k) ==
    /\ g \in 1 .. Len(groups)
    /\ Len(groups) <= MaxGroups
    /\ Cardinality(Given) + k <= MaxGiven
    /\ ~Panicked
    /\ \E handlers \in {combineHandlers(groups[g], NewHandlers(k))} :
       \E sl \in {combinedSlice(groups[g], NewHandlers(k), FreshArray(Len(groups) + 1))} :
           groups' = Append(stored(groups, sl.arr, handlers),
                        [handlers |-> handlers,
                         basePath |-> calculateAbsolutePath(groups[g], relativePath),
                         parent |-> g,
                         inherited |-> groups[g].inherited \o groups[g].own,
                         own |-> NewHandlers(k),
                         arr |-> sl.arr, cap |-> sl.cap])
    /\ UNCHANGED bound
    /\ UNCHANGED treeVars
    /\ UNCHANGED engVars

\* group.Use(middleware...)
Use(g, k) ==
    /\ g \in 1 .. Len(groups)
    /\ k > 0
    /\ Cardinality(Given) + k <= MaxGiven
    /\ ~Panicked
    /\ \E handlers \in {groups[g].handlers \o NewHandlers(k)} :
       \E c \in {Len(handlers) + spare : spare \in Spares} :
       \E sl \in {appendedSlice(groups[g], k, FreshArray(g), c)} :
           groups' = stored([groups EXCEPT ![g].handlers = handlers,
                                          ![g].own = @ \o NewHandlers(k),
                                          ![g].arr = sl.arr,
                                          ![g].cap = sl.cap],
                            sl.arr, handlers)
    /\ UNCHANGED bound
    /\ UNCHANGED treeVars
    /\ UNCHANGED engVars

\* RouterGroup.handle: one route registered under one method
handle(g, httpMethod, relativePath, k) ==
    /\ g \in 1 .. Len(groups)
    /\ Len(bound) < MaxBound
    /\ Cardinality(Given) + k <= MaxGiven
    /\ ~Panicked
    /\ \E absolutePath \in {calculateAbsolutePath(groups[g], relativePath)} :
       \E handlers \in {combineHandlers(groups[g], NewHandlers(k))} :
       \E sl \in {combinedSlice(groups[g], NewHandlers(k), FreshArray(Len(groups) + 1))} :
       \E r \in {engineAddRoute(trees, httpMethod, absolutePath, handlers)} :
           /\ trees' = r.ts
           /\ groups' = stored(groups, sl.arr, handlers)
           /\ bound' = Append(bound,
                          [group |-> g, base |-> groups[g].basePath,
                           rel |-> relativePath, path |-> absolutePath,
                           hs |-> NewHandlers(k), chain |-> handlers,
                           lineage |-> Lineage(g),
                           snapshot |-> groups[g].inherited \o groups[g].own,
                           methods |-> <<httpMethod>>,
                           err |-> r.err])
    /\ UNCHANGED <<reqs, ctxs, pool, units, ran, calls, post, ncalls, first, fired>>
    /\ UNCHANGED treeVars

\* group.Get(relativePath, handlers...)
Handle(g, relativePath, k) == handle(g, "GET", relativePath, k)

InitGroup ==
    /\ TreeIdle
    /\ GroupIdle
    /\ EngineInit(NoTrees, <<>>)

\* groups and routes given handlers, under one prefix and one relative path
NextGroup ==
    \/ \E g \in GroupIds : \E k \in GroupCounts : Group(g, <<"/", "g">>, k)
    \/ \E g \in GroupIds : \E k \in UseCounts : Use(g, k)
    \/ \E g \in GroupIds : \E k \in RouteCounts : Handle(g, <<"/", "x">>, k)

SpecGroup == InitGroup /\ [][NextGroup]_vars

\* groups and routes without handlers, under every prefix and relative path
NextJoin ==
    \/ \E g \in GroupIds : \E rel \in GroupPrefixes : Group(g, rel, 0)
    \/ \E g \in GroupIds : \E rel \in RoutePaths : Handle(g, rel, 0)

SpecJoin == InitGroup /\ [][NextJoin]_vars

(***************************************************************************)
(* Routes registered under several methods on the engine's own group, and  *)
(* the route search of handleRequest over the tables.                      *)
(***************************************************************************)
\* the loop of Any over the methods: the tables, and the methods that were
\* reached, the last of them the one whose addRoute panicked, if one did
RECURSIVE handleFrom(_, _, _, _)
handleFrom(ts, methods, path, handlers) ==
    IF methods = <<>>
    THEN [ts |-> ts, err |-> "ok", methods |-> <<>>]
    ELSE CHOOSE out \in
            UNION { IF r.err # "ok"
                    THEN { [ts |-> r.ts, err |-> r.err,
                            methods |-> <<methods[1]>>] }
                    ELSE { [ts |-> rest.ts, err |-> rest.err,
                            methods |-> <<methods[1]>> \o rest.methods] :
                           rest \in {handleFrom(r.ts, Tail(methods), path, handlers)} } :
                    r \in {engineAddRoute(ts, methods[1], path, handlers)} } :
            TRUE

\* group.Get, group.Post (methods holds the one method) and group.Any (methods
\* is AnyMethods): RouterGroup.handle for each of the methods in turn
handleEach(g, methods, relativePath, k) ==
    /\ g \in 1 .. Len(groups)
    /\ Len(bound) < MaxBound
    /\ Cardinality(Given) + k <= MaxGiven
    /\ ~Panicked
    /\ \E absolutePath \in {calculateAbsolutePath(groups[g], relativePath)} :
       \E handlers \in {combineHandlers(groups[g], NewHandlers(k))} :
       \E sl \in {combinedSlice(groups[g], NewHandlers(k), FreshArray(Len(groups) + 1))} :
       \E r \in {handleFrom(trees, methods, absolutePath, handlers)} :
           /\ trees' = r.ts
           /\ groups' = stored(groups, sl.arr, handlers)
           /\ bound' = Append(bound,
                          [group |-> g, base |-> groups[g].basePath,
                           rel |-> relativePath, path |-> absolutePath,
                           hs |-> NewHandlers(k), chain |-> handlers,
                           lineage |-> Lineage(g),
                           snapshot |-> groups[g].inherited \o groups[g].own,
                           methods |-> r.methods,
                           err |-> r.err])
    /\ UNCHANGED <<reqs, ctxs, pool, units, ran, calls, post, ncalls, first, fired>>
    /\ UNCHANGED treeVars

\* the method lists of the registrations: Get, Post and Any
MethodLists == { <<"GET">>, <<"POST">>, AnyMethods }

\* the patterns registered under the methods
MethodPatterns ==
    { <<"/", "a">>, <<"/", "a", "/", "b">>, <<"/", "u", "/", ":", "i">>,
      <<"/", "u", "/", "n">> }

\* the requests that are routed
MethodRequests ==
    { [method |-> m, path |-> p] :
        m \in {"GET", "POST", "PUT"},
        p \in { <<"/", "a">>, <<"/", "a", "/", "b">>, <<"/", "u", "/", "x">>,
                <<"/", "u", "/", "n">> } }

\* the route search of handleRequest for one request
Dispatch(req) ==
    /\ ~Panicked
    /\ lookup' = [path |-> req.path, method |-> req.method,
                  res |-> findRoute(trees, req)]
    /\ lookup' # lookup
    /\ UNCHANGED <<root, registered>>
    /\ UNCHANGED engVars
    /\ UNCHANGED grpVars

NextMethods ==
    \/ \E ms \in MethodLists : \E rel \in MethodPatterns : handleEach(1, ms, rel, 1)
    \/ \E req \in MethodRequests : Dispatch(req)

SpecMethods == InitGroup /\ [][NextMethods]_vars

(***************************************************************************)
(* Claims about the route tree.                                            *)
(***************************************************************************)
AllOk == \A k \in 1 .. Len(registered) : registered[k].err = "ok"

IsLiteral(p) == \A j \in 1 .. Len(p) : ~IsWild(p[j])

\* p is a literal prefix followed by one final segment sigil + name
EndsIn(p, sigil) ==
    \E j \in 1 .. Len(p) - 1 :
        /\ p[j] = sigil
        /\ IsLiteral(SubSeq(p, 1, j - 1))
        /\ \A e \in j + 1 .. Len(p) : ~IsWild(p[e]) /\ p[e] # "/"

SigilAt(p) == CHOOSE j \in 1 .. Len(p) : IsWild(p[j])

\* the values substituted for a named parameter: non-empty, without '/'
ParamValues == { <<"x">>, <<"x", "y">>, <<"n">>, <<"p">> }

\* the remainders matched by a catch-all
Remainders == { <<>>, <<"a">>, <<"a", "/", "b">>, <<"a", "/", "b", "/", "c", ".", "t">> }

\* C1: when every pattern registered so far is literal and was registered
\* successfully, lookup of each registered path returns the chain given at its
\* registration and an empty parameter map.
C1_LiteralLookup ==
    (AllOk /\ \A k \in 1 .. Len(registered) : IsLiteral(registered[k].path))
    => \A k \in 1 .. Len(registered) :
          LET res == getValue(root, registered[k].path)
          IN  /\ res.handlers = Some(registered[k].chain)
              /\ res.params = EmptyMap

\* three literal routes whose insertion reordered the root's children, and a
\* lookup of the second one that returned its chain
C1_Witness ==
    /\ AllOk
    /\ Len(registered) = 3
    /\ \A k \in 1 .. 3 : IsLiteral(registered[k].path)
    /\ Len(root[1].children) = 2
    /\ root[1].children[1] > root[1].children[2]
    /\ lookup.path = registered[2].path
    /\ lookup.res.handlers = Some(<<2>>)
    /\ lookup.res.params = EmptyMap

\* C2: for a successfully registered pattern prefix:name and every non-empty
\* value v without '/', lookup of prefix v returns the pattern's chain and the
\* parameter map {name: v}.
C2_ParamLookup ==
    AllOk
    => \A k \in 1 .. Len(registered) :
          LET p == registered[k].path
          IN  EndsIn(p, ":")
              => \A v \in ParamValues :
                    LET j   == SigilAt(p)
                        res == getValue(root, SubSeq(p, 1, j - 1) \o v)
                    IN  /\ res.handlers = Some(registered[k].chain)
                        /\ res.params = (SubSeq(p, j + 1, Len(p)) :> v)

\* /u/:i registered beside other routes, and /u/x looked up: {i: "x"}
C2_Witness ==
    /\ AllOk
    /\ Len(registered) = 3
    /\ registered[2].path = <<"/", "u", "/", ":", "i">>
    /\ lookup.path = <<"/", "u", "/", "x">>
    /\ lookup.res.handlers = Some(<<2>>)
    /\ lookup.res.params = (<<"i">> :> <<"x">>)

\* C3 as stated: for a successfully registered pattern prefix/*name and every
\* remainder r, lookup of prefix/r returns the chain and binds name to r.
C3_CatchAllWithoutSeparator ==
    AllOk
    => \A k \in 1 .. Len(registered) :
          LET p == registered[k].path
          IN  EndsIn(p, "*")
              => \A r \in Remainders :
                    LET j   == SigilAt(p)
                        res == getValue(root, SubSeq(p, 1, j - 1) \o r)
                    IN  /\ res.handlers = Some(registered[k].chain)
                        /\ res.params = (SubSeq(p, j + 1, Len(p)) :> r)

\* C3 amended: for a successfully registered pattern prefix/*name and every
\* remainder r, lookup of prefix/r is a match that returns the chain and binds
\* name to "/" followed by r: the value keeps the separator that precedes the
\* catch-all segment.
C3_CatchAllKeepsSeparator ==
    AllOk
    => \A k \in 1 .. Len(registered) :
          LET p == registered[k].path
          IN  EndsIn(p, "*")
              => \A r \in Remainders :
                    LET j   == SigilAt(p)
                        res == getValue(root, SubSeq(p, 1, j - 1) \o r)
                    IN  /\ res.handlers = Some(registered[k].chain)
                        /\ res.params = (SubSeq(p, j + 1, Len(p)) :> (<<"/">> \o r))

\* /f/*r registered beside other routes, and /f/a/b looked up: {r: "/a/b"}
C3_Witness ==
    /\ AllOk
    /\ Len(registered) = 3
    /\ registered[2].path = <<"/", "f", "/", "*", "r">>
    /\ lookup.path = <<"/", "f", "/", "a", "/", "b">>
    /\ lookup.res.handlers = Some(<<2>>)
    /\ lookup.res.params = (<<"r">> :> <<"/", "a", "/", "b">>)


(***************************************************************************)
(* Claims about chain execution.                                           *)
(***************************************************************************)
\* the chain handleRequest started for request r
ChainOf(r) == IF ran[r] = <<>> THEN <<>> ELSE ran[r][1]

\* how often the handler at position pos of request r's chain was invoked
Count(r, pos) == Cardinality({k \in 1 .. Len(calls[r]) : calls[r][k] = pos})

Requests == 1 .. Len(reqs)

\* the handlers that abort without having called Next
AbortKinds == {"abort", "abortSt", "abortJS"}

\* the handlers whose body calls Next and has code after the call
WrapKinds == {"wrap", "spin"}

\* C4: in a chain [A, B, C] whose B was invoked and aborts without calling
\* Next, C is never invoked, A and B are invoked exactly once, no fault is
\* raised, and when the request is finished the code A has after its Next
\* call has run.
C4_AbortSkipsRest ==
    \A r \in Requests :
        LET ch == ChainOf(r)
        IN  (Len(ch) = 3 /\ ch[2] \in AbortKinds /\ Count(r, 1) >= 1)
            => /\ Count(r, 2) = 0
               /\ Count(r, 0) = 1
               /\ Count(r, 1) = 1
               /\ units[r].st # "panic"
               /\ (units[r].st = "done" /\ ch[1] \in WrapKinds) => 0 \in post[r]

\* [wrap, abortJS, pass] served to the end: A and B ran once, C never, and
\* the code after A's Next ran
C4_Witness ==
    /\ Len(reqs) = 1
    /\ units[1].st = "done"
    /\ ChainOf(1) = <<"wrap", "abortJS", "pass">>
    /\ calls[1] = <<0, 1>>
    /\ post[1] = {0}
    /\ ctxs[units[1].ctx].aborted

\* C9 as stated: while a request executes, no step decreases the cursor of its
\* context and no handler of its chain is invoked more than once.
C9_CursorMonotonic ==
    [][\A u \in DOMAIN units :
          (units[u].ctx # 0 /\ units'[u].ctx = units[u].ctx)
          => /\ ctxs'[units[u].ctx].index >= ctxs[units[u].ctx].index
             /\ \A k \in 1 .. Len(calls'[units[u].req]) :
                   \A j \in 1 .. Len(calls'[units[u].req]) :
                      calls'[units[u].req][k] = calls'[units[u].req][j] => k = j]_vars

\* C10 as stated: once every handler of the chain was invoked, further calls
\* of Next invoke no handler and raise no fault, however many there are.
C10_NextPastEndIsNoOp ==
    \A r \in Requests :
        /\ Len(calls[r]) <= Len(ChainOf(r))
        /\ units[r].st # "panic"


(***************************************************************************)
(* Claims about dispatch and the context pool.                             *)
(***************************************************************************)
\* what the route table EngineRoutes binds to a request: chain and parameters
Expected(req) ==
    IF req = [method |-> "GET", path |-> <<"/", "u", "/", "x">>]
    THEN [chain |-> <<"set", "abort", "pass">>, params |-> (<<"i">> :> <<"x">>),
          store |-> ("_fullPath" :> <<"/", "u", "/", ":", "i">>)]
    ELSE IF req = [method |-> "GET", path |-> <<"/", "a">>]
    THEN [chain |-> <<"wrap", "pass">>, params |-> EmptyMap,
          store |-> ("_fullPath" :> <<"/", "a">>)]
    ELSE [chain |-> <<"notFound">>, params |-> EmptyMap, store |-> EmptyMap]

\* C5: as the first handler of a request starts, its context holds the
\* parameters and chain of this request's own match only, a store with nothing
\* a handler wrote, a clear abort flag and the cursor on the first handler.
C5_ContextFreshAtFirstHandler ==
    \A r \in Requests :
        first[r] # <<>>
        => LET c == first[r][1]
               e == Expected(reqs[r])
           IN  /\ c.Params = e.params
               /\ c.store = e.store
               /\ c.aborted = FALSE
               /\ c.index = 0
               /\ c.handlers = e.chain
               /\ c.Request = r

\* a request with no route got the context that GET /u/x had filled with a
\* parameter, a store entry, the abort flag and a three-handler chain
C5_Witness ==
    \E r \in Requests : \E q \in Requests :
        /\ q # r
        /\ reqs[q] = [method |-> "GET", path |-> <<"/", "u", "/", "x">>]
        /\ units[q].st = "done"
        /\ calls[q] = <<0, 1>>
        /\ units[r].reused
        /\ units[r].ctx = units[q].ctx
        /\ Expected(reqs[r]).chain = <<"notFound">>
        /\ first[r] # <<>>
        /\ first[r][1].store = EmptyMap
        /\ first[r][1].handlers = <<"notFound">>

\* C6: handleRequest starts at most one chain per request; once the request
\* is served it has started exactly one, the chain bound to the matched route
\* or else the chain of the single built-in handler, which ran once through
\* Next and set the status 404.
C6_ExactlyOneChain ==
    \A r \in Requests :
        LET e == Expected(reqs[r])
        IN  /\ Len(ran[r]) <= 1
            /\ ran[r] # <<>> => ran[r][1] = e.chain
            /\ \A k \in 1 .. Len(calls[r]) : calls[r][k] < Len(e.chain)
            /\ units[r].st = "done" => Len(ran[r]) = 1
            /\ (units[r].st = "done" /\ e.chain = <<"notFound">>)
               => (calls[r] = <<0>> /\ units[r].logged = 404)

\* a POST request, whose method has no tree, and a GET request with a route
\* are both served: the first ran the built-in handler, the second its chain
C6_Witness ==
    \E r \in Requests : \E q \in Requests :
        /\ reqs[r].method = "POST"
        /\ units[r].st = "done"
        /\ ran[r] = << <<"notFound">> >>
        /\ calls[r] = <<0>>
        /\ units[r].logged = 404
        /\ reqs[q] = [method |-> "GET", path |-> <<"/", "a">>]
        /\ units[q].st = "done"
        /\ ran[q] = << <<"wrap", "pass">> >>
        /\ calls[q] = <<0, 1>>


(***************************************************************************)
(* Claims about concurrent use of a context (SpecTimeout).                 *)
(***************************************************************************)
\* the goroutines that have a context and have not finished
Live == { u \in DOMAIN units : units[u].st = "run" /\ units[u].ctx # 0 }

\* the goroutine executes a handler of the chain
InChainHandler(u) ==
    /\ units[u].stack # <<>>
    /\ Top(u).k = "h"
    /\ Top(u).pos >= 0

\* the goroutine is between the read and the write of c.index++
InCursorUpdate(u) ==
    /\ units[u].stack # <<>>
    /\ Top(u).k = "next"
    /\ Top(u).pc = "write"

\* C7: no context is held by unfinished execution units of two different
\* requests: from a request's acquisition of a context until every unit
\* running its chain has finished, no other request uses that context.
C7_ContextExclusive ==
    \A u \in Live : \A v \in Live :
        units[u].ctx = units[v].ctx => units[u].req = units[v].req

\* C8: within one request no two execution units execute handlers of the
\* chain at the same time, and no two are advancing the cursor at the same time.
C8_OneHandlerAtATime ==
    \A u \in Live : \A v \in Live :
        (u # v /\ units[u].req = units[v].req) =>
            /\ ~(InChainHandler(u) /\ InChainHandler(v))
            /\ ~(InCursorUpdate(u) /\ InCursorUpdate(v))


(***************************************************************************)
(* Claims about registration errors (SpecTree).                            *)
(***************************************************************************)
\* the registration that was made last
Last == registered[Len(registered)]

\* every registration before the last one succeeded
EarlierOk == \A k \in 1 .. Len(registered) - 1 : registered[k].err = "ok"

\* the last registration repeats the pattern of an earlier, successful one
LastIsDuplicate ==
    /\ registered # <<>>
    /\ EarlierOk
    /\ \E j \in 1 .. Len(registered) - 1 : registered[j].path = Last.path

\* the chains bound in the tree to the pattern p
BoundTo(p) ==
    { root[n].handlers : n \in { m \in 1 .. Len(root) :
                                   root[m].handlers # NilH /\ root[m].fullPath = p } }

\* C11: registering a pattern that already has a chain bound fails with the
\* duplicate error, whether the pattern is literal, ends in a parameter or in
\* a catch-all; the pattern keeps exactly the chain bound first.
C11_DuplicateFails ==
    LastIsDuplicate
    => /\ Last.err = "handlers are already registered for path"
       /\ \A j \in 1 .. Len(registered) - 1 :
             registered[j].path = Last.path
             => BoundTo(Last.path) = { Some(registered[j].chain) }

\* the segment of the pattern p that starts at position j: up to the next '/'
SegAt(p, j) ==
    LET stops == { e \in j .. Len(p) : p[e] = "/" }
        stop  == IF stops = {} THEN Len(p) + 1
                 ELSE CHOOSE e \in stops : \A e2 \in stops : e <= e2
    IN  SubSeq(p, j, stop - 1)

\* the pattern q has a wildcard segment at position j, the pattern p follows q
\* up to there and continues with a different segment
ClashesAt(p, q, j) ==
    /\ j <= Len(q)
    /\ j <= Len(p)
    /\ IsWild(q[j])
    /\ SubSeq(p, 1, j - 1) = SubSeq(q, 1, j - 1)
    /\ SegAt(p, j) # SegAt(q, j)

\* the last registration meets the wildcard of an earlier, successful one with
\* a segment of another name or kind
LastClashes ==
    /\ registered # <<>>
    /\ EarlierOk
    /\ \E k \in 1 .. Len(registered) - 1 :
          \E j \in 1 .. Len(registered[k].path) :
             ClashesAt(Last.path, registered[k].path, j)

\* C12: registering a pattern whose segment at a position occupied by a
\* wildcard child differs from that wildcard in name or kind fails with the
\* route-conflict error.
C12_WildcardConflictFails ==
    LastClashes => Last.err = "conflict with wildcard route"

\* the pattern p has a wildcard segment at position j, where the pattern q,
\* equal to p up to there, continues with a static segment
WildOverStaticAt(p, q, j) ==
    /\ j <= Len(p)
    /\ j <= Len(q)
    /\ IsWild(p[j])
    /\ SubSeq(p, 1, j - 1) = SubSeq(q, 1, j - 1)
    /\ ~IsWild(q[j])
    /\ q[j] # "/"

\* the last registration puts a wildcard segment where an earlier, successful
\* one has a static segment
LastWildOverStatic ==
    /\ registered # <<>>
    /\ EarlierOk
    /\ \E k \in 1 .. Len(registered) - 1 :
          \E j \in 1 .. Len(Last.path) :
             WildOverStaticAt(Last.path, registered[k].path, j)

\* C13: registering a pattern whose wildcard segment falls at a position where
\* static children already exist fails, whatever was registered before.
C13_WildcardOverStaticFails ==
    LastWildOverStatic => Last.err # "ok"

\* the pattern has a catch-all segment followed by a further segment
CatchAllNotLast(p) ==
    \E j \in 1 .. Len(p) :
        /\ p[j] = "*"
        /\ \A e \in 1 .. j - 1 : ~IsWild(p[e])
        /\ \E e \in j + 1 .. Len(p) : p[e] = "/"

\* C14: registering a pattern whose catch-all segment is not its final
\* segment fails, whatever was registered before.
C14_CatchAllNotLastFails ==
    (registered # <<>> /\ EarlierOk /\ CatchAllNotLast(Last.path))
    => Last.err # "ok"

\* the segments of the pattern that hold more than one wildcard sigil
CrowdedSegments(p) ==
    { j \in 1 .. Len(p) :
        /\ j = 1 \/ p[j - 1] = "/"
        /\ Cardinality({ e \in j .. j + Len(SegAt(p, j)) - 1 : IsWild(p[e]) }) > 1 }

\* C15: registering a pattern with more than one wildcard sigil within one
\* segment fails, whatever was registered before.
C15_TwoSigilsFail ==
    (registered # <<>> /\ EarlierOk /\ CrowdedSegments(Last.path) # {})
    => Last.err # "ok"

\* /u/:i:n registered into a tree that holds other routes below /u/ and
\* refused for its second sigil
C15_Witness ==
    /\ Len(registered) = 3
    /\ EarlierOk
    /\ registered[1].path = <<"/", "u", "/", "n">>
    /\ registered[2].path = <<"/", "a">>
    /\ Last.path = <<"/", "u", "/", ":", "i", ":", "n">>
    /\ CrowdedSegments(Last.path) = {4}
    /\ Last.err = "only one wildcard per path segment is allowed"

(***************************************************************************)
(* Claims about the shape of the tree (SpecTree).                          *)
(***************************************************************************)
\* a request path that the pattern p is meant to match: every wildcard
\* segment replaced by the value x
RECURSIVE InstFrom(_, _, _)
InstFrom(p, j, inWild) ==
    IF j > Len(p) THEN <<>>
    ELSE IF IsWild(p[j]) THEN <<"x">> \o InstFrom(p, j + 1, TRUE)
    ELSE IF p[j] = "/" THEN <<"/">> \o InstFrom(p, j + 1, FALSE)
    ELSE IF inWild THEN InstFrom(p, j + 1, TRUE)
    ELSE <<p[j]>> \o InstFrom(p, j + 1, FALSE)

Inst(p) == InstFrom(p, 1, FALSE)

\* in the tree t the k-th registered pattern resolves to its own chain
Resolves(t, k) ==
    getValue(t, Inst(registered[k].path)).handlers = Some(registered[k].chain)

\* this step registers a literal pattern successfully into a tree of successful
\* registrations, and splits node n at a point the pattern continues beyond
SplitsAt(n) ==
    /\ Len(registered') = Len(registered) + 1
    /\ \A k \in 1 .. Len(registered') : registered'[k].err = "ok"
    /\ IsLiteral(registered'[Len(registered')].path)
    /\ root[n].path # <<>>
    /\ root'[n].path # root[n].path
    /\ Len(root'[n].fullPath) < Len(registered'[Len(registered')].path)

\* C16: a literal insertion that parts from an existing node inside its
\* fragment leaves that node with the common prefix, no chain, and two new
\* children: one with the rest of the fragment and the node's former children
\* and chain, one leaf with the rest of the pattern and the new chain; every
\* pattern that resolved to its own chain still does, and so does the new one.
C16_SplitKeepsRoutes ==
    [][\A n \in 1 .. Len(root) :
          SplitsAt(n)
          => LET new == registered'[Len(registered')]
                 cs  == root'[n].children
                 i   == Len(root'[n].path)
             IN  /\ i < Len(root[n].path)
                 /\ root'[n].path = SubSeq(root[n].path, 1, i)
                 /\ root'[n].handlers = NilH
                 /\ Len(cs) = 2
                 /\ cs[1] # cs[2]
                 /\ \A e \in 1 .. 2 : cs[e] > Len(root)
                 /\ root'[n].indices = <<root'[cs[1]].path[1], root'[cs[2]].path[1]>>
                 /\ root'[cs[1]].path[1] # root'[cs[2]].path[1]
                 /\ \E c \in {cs[1], cs[2]} :
                       /\ root'[c].path = SubSeq(root[n].path, i + 1, Len(root[n].path))
                       /\ root'[c].children = root[n].children
                       /\ root'[c].handlers = root[n].handlers
                       /\ root'[c].wildChild = root[n].wildChild
                 /\ \E d \in {cs[1], cs[2]} :
                       /\ root'[d].handlers = Some(new.chain)
                       /\ root'[d].children = <<>>
                 /\ \A k \in 1 .. Len(registered) :
                       Resolves(root, k) => Resolves(root', k)
                 /\ getValue(root', new.path).handlers = Some(new.chain)]_vars

\* /ab, then /ac split the root into /a with the children b and c, and /ab
\* still resolves to the first chain
C16_Witness ==
    /\ Len(registered) = 2
    /\ AllOk
    /\ registered[1].path = <<"/", "a", "b">>
    /\ registered[2].path = <<"/", "a", "c">>
    /\ root[1].path = <<"/", "a">>
    /\ root[1].handlers = NilH
    /\ Len(root[1].children) = 2
    /\ root[root[1].children[1]].path = <<"b">>
    /\ root[root[1].children[2]].path = <<"c">>
    /\ lookup.path = <<"/", "a", "b">>
    /\ lookup.res.handlers = Some(<<1>>)

(***************************************************************************)
(* Claims about route groups (SpecGroup, SpecJoin).                        *)
(***************************************************************************)
\* the chain the GET tree binds to the path of the b-th route
BoundChain(b) ==
    findRoute(trees, [method |-> "GET", path |-> bound[b].path]).handlers

\* C17 as stated: the chain bound to a route is the middleware given to each
\* ancestor group, from the engine's group down, then the middleware given to
\* the route's group, then the route's own handlers, each in the order given.
C17_ChainIsLineage ==
    \A b \in 1 .. Len(bound) :
        bound[b].err = "ok"
        => BoundChain(b) = Some(bound[b].lineage \o bound[b].hs)

\* C17 amended: the chain bound to a route is the middleware each ancestor
\* group had been given when the next group towards the route's group was
\* created from it, from the engine's group down, then the middleware given
\* to the route's group before the registration, then the route's own
\* handlers, each in the order given.
C17_ChainIsSnapshot ==
    \A b \in 1 .. Len(bound) :
        bound[b].err = "ok"
        => BoundChain(b) = Some(bound[b].snapshot \o bound[b].hs)

\* a route registered with one handler on a group nested two deep, below the
\* middleware of the engine's group and of the group between
C17_Witness ==
    \E b \in 1 .. Len(bound) :
        /\ bound[b].err = "ok"
        /\ groups[bound[b].group].parent > 1
        /\ groups[1].own = <<1>>
        /\ groups[groups[bound[b].group].parent].own = <<2>>
        /\ bound[b].hs = <<3>>
        /\ BoundChain(b) = Some(<<1, 2, 3>>)

\* the path without one trailing '/'
DropTrailing(p) ==
    IF p # <<>> /\ p[Len(p)] = "/" THEN SubSeq(p, 1, Len(p) - 1) ELSE p

\* the path without one leading '/'
DropLeading(p) ==
    IF p # <<>> /\ p[1] = "/" THEN Tail(p) ELSE p

\* base and rel with exactly one '/' between them; base if rel is empty
OneSeparator(base, rel) ==
    IF rel = <<>> THEN base
    ELSE DropTrailing(base) \o <<"/">> \o DropLeading(rel)

\* C18: the absolute path of a route is its group's base path and its relative
\* path with exactly one '/' between them, whether or not the base ends and
\* the relative path starts with '/'; the base path when the relative path is
\* empty.
C18_OneSeparator ==
    \A b \in 1 .. Len(bound) :
        bound[b].path = OneSeparator(bound[b].base, bound[b].rel)

\* the descents of addRoute(path) through the first-byte index of the tree t, from
\* node n on: the pairs <<node, position of the child entered>>
RECURSIVE Descents(_, _, _)
Descents(t, n, path0) ==
    LET i == longestCommonPrefix(path0, t[n].path)
    IN  IF i < Len(t[n].path) \/ i >= Len(path0)
        THEN {}
        ELSE LET path == From(path0, i)
                 hits == {k \in 0 .. Len(t[n].indices) - 1 :
                             At(t[n].indices, k) = path[1]}
             IN  IF t[n].wildChild
                 THEN IF wildcardMatches(path, t[t[n].children[1]].path)
                      THEN Descents(t, t[n].children[1], path)
                      ELSE {}
                 ELSE IF hits = {}
                 THEN {}
                 ELSE LET k == CHOOSE k \in hits : \A k2 \in hits : k <= k2
                      IN  {<<n, k>>} \cup Descents(t, At(t[n].children, k), path)

\* the sequence s with the element at pos moved to newPos, the rest in order
MovedTo(s, pos, newPos) ==
    Slice(s, 0, newPos) \o <<At(s, pos)>> \o Slice(s, newPos, pos) \o From(s, pos + 1)

\* the place of the child at pos of node n once its priority is prio: behind the
\* siblings before it that have at least that priority
PlaceFor(t, n, pos, prio) ==
    Cardinality({j \in 0 .. pos - 1 : t[At(t[n].children, j)].priority >= prio})

\* this step is a successful registration
RegistersOk ==
    /\ Len(registered') = Len(registered) + 1
    /\ registered'[Len(registered')].err = "ok"

\* C19: a successful insertion raises the priority of every static child it
\* descends into through the first-byte index by one, and puts the child and
\* its index entry ahead of exactly the siblings before it whose priority is
\* now lower, the other siblings keeping their order.
C19_DescentRaisesPriority ==
    [][RegistersOk
       => \A d \in Descents([root EXCEPT ![1].priority = @ + 1], 1,
                             registered'[Len(registered')].path) :
             LET n      == d[1]
                 pos    == d[2]
                 c      == At(root[n].children, pos)
                 prio   == root[c].priority + 1
                 newPos == PlaceFor(root, n, pos, prio)
             IN  /\ root'[c].priority = prio
                 /\ root'[n].children = MovedTo(root[n].children, pos, newPos)
                 /\ root'[n].indices = MovedTo(root[n].indices, pos, newPos)
                 /\ \A j \in newPos .. pos - 1 :
                        root[At(root[n].children, j)].priority < prio
                 /\ \A e \in 1 .. Len(root[n].children) :
                        root[n].children[e] # c
                        => root'[root[n].children[e]].priority
                           = root[root[n].children[e]].priority]_vars

\* /b, /a, then /ab: the third insertion descended into a, the second child of
\* the root, raised its priority to 2 and moved it and its index entry ahead of b
C19_Witness ==
    /\ Len(registered) = 3
    /\ AllOk
    /\ registered[1].path = <<"/", "b">>
    /\ registered[2].path = <<"/", "a">>
    /\ registered[3].path = <<"/", "a", "b">>
    /\ root[1].indices = <<"a", "b">>
    /\ root[1].children[1] > root[1].children[2]
    /\ root[root[1].children[1]].path = <<"a">>
    /\ root[root[1].children[1]].priority = 2
    /\ root[root[1].children[2]].path = <<"b">>
    /\ root[root[1].children[2]].priority = 1

\* this step is a lookup: no registration, and a result recorded
LooksUp ==
    /\ Len(registered') = Len(registered)
    /\ lookup' # lookup
    /\ lookup'.path # <<>>

\* C20: a lookup, found or not found, leaves every node of the route tree as
\* it was: fragments, child order, first-byte indices, priorities and chains.
C20_LookupKeepsTree ==
    [][LooksUp
       => /\ Len(root') = Len(root)
          /\ \A n \in 1 .. Len(root) :
                /\ root'[n].path = root[n].path
                /\ root'[n].children = root[n].children
                /\ root'[n].indices = root[n].indices
                /\ root'[n].priority = root[n].priority
                /\ root'[n].handlers = root[n].handlers
                /\ root'[n].wildChild = root[n].wildChild
                /\ root'[n].nType = root[n].nType]_vars

\* /b, /a, /ab put a ahead of b under the root; a lookup of /a found its chain
\* and the order and the priorities stayed
C20_Witness ==
    /\ Len(registered) = 3
    /\ AllOk
    /\ registered[1].path = <<"/", "b">>
    /\ registered[2].path = <<"/", "a">>
    /\ registered[3].path = <<"/", "a", "b">>
    /\ lookup.path = <<"/", "a">>
    /\ lookup.res.handlers = Some(<<2>>)
    /\ root[1].indices = <<"a", "b">>
    /\ root[root[1].children[1]].priority = 2

(***************************************************************************)
(* Claims about lookup after mixed registrations (SpecTree).               *)
(***************************************************************************)
\* the end of the segment of p that holds position j
SegEnd(p, j) ==
    LET slash == {e \in j .. Len(p) : p[e] = "/"}
    IN  IF slash = {} THEN Len(p)
        ELSE (CHOOSE e \in slash : \A e2 \in slash : e <= e2) - 1

\* the names of the named parameters of the pattern p
ParamNames(p) == {SubSeq(p, j + 1, SegEnd(p, j)) : j \in {e \in 1 .. Len(p) : p[e] = ":"}}

\* the lookup result gives the chain of the k-th registration and binds every
\* named parameter of its pattern to the value x substituted for it
ResolvesWithParams(t, k) ==
    LET res == getValue(t, Inst(registered[k].path))
    IN  /\ res.handlers = Some(registered[k].chain)
        /\ \A nm \in ParamNames(registered[k].path) :
               /\ nm \in DOMAIN res.params
               /\ res.params[nm] = <<"x">>

\* C23: when every registration so far succeeded, each registered pattern,
\* with a non-empty value without '/' put in for every parameter, resolves to
\* its own chain with those parameter values.
C23_EveryPatternResolves ==
    AllOk => \A k \in 1 .. Len(registered) : ResolvesWithParams(root, k)

\* the tree after addRoute of regs[k], regs[k+1], ... into t, and whether every
\* one of them returned without panic
RECURSIVE AddAll(_, _, _)
AddAll(t, regs, k) ==
    IF k > Len(regs) THEN [t |-> t, ok |-> TRUE]
    ELSE LET r == addRoute(t, regs[k].path, Some(regs[k].chain))
         IN  IF r.err = "ok" THEN AddAll(r.t, regs, k + 1)
             ELSE [t |-> r.t, ok |-> FALSE]

\* the orders in which the registrations made so far can be made
Orders ==
    {f \in [1 .. Len(registered) -> 1 .. Len(registered)] :
        \A a, b \in 1 .. Len(registered) : a # b => f[a] # f[b]}

Reordered(f) == [k \in 1 .. Len(registered) |-> registered[f[k]]]

DistinctPatterns ==
    \A a, b \in 1 .. Len(registered) : a # b => registered[a].path # registered[b].path

\* C24: when distinct patterns were all registered successfully, registering
\* them in any other order succeeds too and gives a tree in which every
\* request path resolves to the same chain with the same parameters.
C24_OrderIndependent ==
    (AllOk /\ DistinctPatterns)
    => \A f \in Orders :
          LET b == AddAll(NewNode, Reordered(f), 1)
          IN  /\ b.ok
              /\ \A path \in Paths :
                    /\ getValue(b.t, path).handlers = getValue(root, path).handlers
                    /\ getValue(b.t, path).params = getValue(root, path).params

\* the pattern p from position j on consumes the path from position i on in
\* full: literal bytes are equal, a named parameter takes the bytes up to the
\* next '/', a catch-all takes all the rest
RECURSIVE ConsumesFrom(_, _, _, _)
ConsumesFrom(p, j, path, i) ==
    IF j > Len(p) THEN i > Len(path)
    ELSE IF p[j] = "*" THEN TRUE
    ELSE IF p[j] = ":"
    THEN ConsumesFrom(p, SegEnd(p, j) + 1, path,
                      i + paramEnd(SubSeq(path, i, Len(path))))
    ELSE /\ i <= Len(path)
         /\ path[i] = p[j]
         /\ ConsumesFrom(p, j + 1, path, i + 1)

Consumes(p, path) == ConsumesFrom(p, 1, path, 1)

\* C25: a lookup returns a chain only for a path consumed in full by a
\* successfully registered pattern, and then the chain of such a pattern; every
\* other path (a strict prefix ending at a chain-less node, a trailing '/'
\* added or missing, a diverging fragment, segments after a terminal parameter)
\* is reported not found.
C25_NotFoundUnlessConsumed ==
    lookup.res.handlers # NilH
    => \E k \in 1 .. Len(registered) :
          /\ registered[k].err = "ok"
          /\ lookup.res.handlers = Some(registered[k].chain)
          /\ Consumes(registered[k].path, lookup.path)

\* /ab and /ac split the root into the chain-less node /a; with /u/:i too, the
\* lookup of /u/x/p, a segment beyond the terminal parameter, found nothing,
\* and neither does /a, /a/b or /u/
C25_Witness ==
    /\ Len(registered) = 3
    /\ AllOk
    /\ registered[1].path = <<"/", "a", "b">>
    /\ registered[2].path = <<"/", "a", "c">>
    /\ registered[3].path = <<"/", "u", "/", ":", "i">>
    /\ lookup.path = <<"/", "u", "/", "x", "/", "p">>
    /\ lookup.res.handlers = NilH
    /\ getValue(root, <<"/", "a">>).handlers = NilH
    /\ getValue(root, <<"/", "a", "/", "b">>).handlers = NilH
    /\ getValue(root, <<"/", "u", "/">>).handlers = NilH
    /\ getValue(root, <<"/", "u", "/", "x">>).handlers = Some(<<3>>)

\* C26: a lookup that returns a chain has bound every named parameter of the
\* pattern found to a non-empty value without '/'.
C26_ParamIsOneComponent ==
    \A path \in Paths :
        LET res == getValue(root, path)
        IN  res.handlers # NilH
            => \A nm \in ParamNames(res.fullPath) \cap DOMAIN res.params :
                  /\ res.params[nm] # <<>>
                  /\ \A e \in 1 .. Len(res.params[nm]) : res.params[nm][e] # "/"

(***************************************************************************)
(* Invariants of the tree after any registrations (SpecTree).              *)
(***************************************************************************)
WildKinds == {"param", "catchAll"}

\* the nodes of the tree whose wildcard-child flag is set
WildParents == {n \in 1 .. Len(root) : root[n].wildChild}

\* C29: after any registrations, failed ones included, a node whose wildChild
\* flag is set has exactly one child, and the child is a param or a catch-all
\* node.
C29_WildChildIsOnlyChild ==
    \A n \in WildParents :
        /\ Len(root[n].children) = 1
        /\ root[root[n].children[1]].nType \in WildKinds

\* /u/:i, then /a, which splits the flagged root /u/ and fails nothing, then
\* /u/n, which panics on the wildcard: a flagged node with a param child below
\* the split; and the root no longer flagged
C29_Witness ==
    /\ Len(registered) = 3
    /\ registered[1].path = <<"/", "u", "/", ":", "i">>
    /\ registered[2].path = <<"/", "a">>
    /\ registered[3].path = <<"/", "u", "/", "n">>
    /\ registered[3].err # "ok"
    /\ ~root[1].wildChild
    /\ \E n \in WildParents :
          /\ root[n].path = <<"u", "/">>
          /\ root[root[n].children[1]].nType = "param"

\* the sequence s has no element twice
NoRepeat(s) == \A a, b \in 1 .. Len(s) : a # b => s[a] # s[b]

\* the static children of node n that hold a fragment
StaticChildren(n) ==
    {c \in {root[n].children[e] : e \in 1 .. Len(root[n].children)} :
        root[c].nType = "static" /\ root[c].path # <<>>}

\* C30: after any registrations, in every node the bytes of the first-byte
\* index are pairwise distinct and no two static children have fragments that
\* begin with the same byte.
C30_FirstBytesDistinct ==
    \A n \in 1 .. Len(root) :
        /\ NoRepeat(root[n].indices)
        /\ \A c, d \in StaticChildren(n) : c # d => root[c].path[1] # root[d].path[1]

(***************************************************************************)
(* Claims about the order of invocation (SpecChain).                       *)
(***************************************************************************)
\* the positions 0 .. n-1 in order
Positions(n) == [k \in 1 .. n |-> k - 1]

\* no handler of the chain calls Abort
NoAbort(ch) == \A k \in 1 .. Len(ch) : ch[k] \notin AbortKinds \cup {"abortNx"}

\* the goroutine of request r has ended
Ended(r) == units[r].st \in {"done", "panic"}

\* C27: in a chain without an aborting handler, whether its handlers call Next
\* or not, the handlers are invoked in chain order, none twice, and all of them
\* by the time the request has ended.
C27_EveryHandlerOnce ==
    \A r \in Requests :
        LET ch == ChainOf(r)
        IN  (ch # <<>> /\ NoAbort(ch))
            => /\ Len(calls[r]) <= Len(ch)
               /\ calls[r] = Positions(Len(calls[r]))
               /\ Ended(r) => \A pos \in 0 .. Len(ch) - 1 : Count(r, pos) = 1

\* C28: for every chain length n, a chain of n handlers none of which aborts
\* has had its handlers 0 .. n-1 invoked, in this order, when ServeHTTP returns.
C28_AllLengthsRun ==
    \A r \in Requests :
        (units[r].st = "done" /\ NoAbort(ChainOf(r)))
        => calls[r] = Positions(Len(ChainOf(r)))

(***************************************************************************)
(* Claims about a fault in a handler (SpecFault).                          *)
(***************************************************************************)
\* what the route table FaultRoutes binds to a request
FaultExpected(req) ==
    IF req = [method |-> "GET", path |-> <<"/", "b">>]
    THEN [chain |-> <<"set", "panic", "pass">>, store |-> ("_fullPath" :> <<"/", "b">>)]
    ELSE IF req = [method |-> "GET", path |-> <<"/", "a">>]
    THEN [chain |-> <<"wrap", "set">>, store |-> ("_fullPath" :> <<"/", "a">>)]
    ELSE [chain |-> <<"notFound">>, store |-> EmptyMap]

\* the goroutine of request r is about to execute a panic in a handler
AboutToPanic(r) ==
    /\ units[r].st = "run"
    /\ units[r].stack # <<>>
    /\ Top(r).k = "h"
    /\ Top(r).pc <= Len(Prog(Top(r).h))
    /\ Prog(Top(r).h)[Top(r).pc] = "Panic"

\* the requests whose goroutine ended in a panic
Faulted == {r \in Requests : units[r].st = "panic"}

\* C21: a panic in a handler ends the goroutine of its request with no frame
\* left and touches nothing else: the route trees, the pool, the contexts and
\* the other goroutines are as before; the context of a faulted request is
\* never in the pool; and every request whose first handler starts, after a
\* fault too, has a context of its own, reset, with its own chain and nothing
\* stored by a handler.
C21_FaultEndsOneRequest ==
    [][/\ trees' = trees
       /\ \A r \in Requests :
             (AboutToPanic(r) /\ units'[r] # units[r])
             => /\ units'[r].st = "panic"
                /\ units'[r].stack = <<>>
                /\ \A q \in Requests \ {r} : units'[q] = units[q]
                /\ ctxs' = ctxs
                /\ pool' = pool
       /\ \A r \in Faulted : units[r].ctx \notin pool'
       /\ \A q \in Requests :
             (first[q] = <<>> /\ first'[q] # <<>>)
             => LET c == first'[q][1]
                IN  /\ \A r \in Faulted : units[r].ctx # units[q].ctx
                    /\ c.Request = q
                    /\ c.handlers = FaultExpected(reqs[q]).chain
                    /\ c.store = FaultExpected(reqs[q]).store
                    /\ c.Params = EmptyMap
                    /\ c.index = 0
                    /\ ~c.aborted]_vars

\* GET /b stored a value and panicked in its second handler, its third never
\* ran; GET /a took a context created later and was served to the end, and
\* only that context is in the pool
C21_Witness ==
    \E r \in Requests : \E q \in Requests :
        /\ units[r].st = "panic"
        /\ calls[r] = <<0, 1>>
        /\ "k" \in DOMAIN ctxs[units[r].ctx].store
        /\ units[r].ctx < units[q].ctx
        /\ reqs[q] = [method |-> "GET", path |-> <<"/", "a">>]
        /\ units[q].st = "done"
        /\ calls[q] = <<0, 1>>
        /\ first[q][1].store = ("_fullPath" :> <<"/", "a">>)
        /\ pool = {units[q].ctx}

(***************************************************************************)
(* Claims about the timeout middleware (SpecTimeout).                      *)
(***************************************************************************)
\* the goroutines inside a timeout middleware that has started its chain
Waiting ==
    {u \in DOMAIN units :
        /\ units[u].st = "run"
        /\ units[u].stack # <<>>
        /\ Top(u).k = "timeout"
        /\ Top(u).pc \in {"select", "blocked", "fire"}}

\* this step of u invokes the timeout handler
Fires(u) == fired'[units[u].req] = fired[units[u].req] + 1

\* this step of u returns from the middleware without the timeout handler
Leaves(u) == Len(units'[u].stack) < Len(units[u].stack)

\* C22: the timeout handler is invoked only if the deadline elapsed before the
\* chain completed, and then once, by a step that leaves the goroutine of the
\* chain as it is, running or not; and if the deadline elapsed before the chain
\* completed the middleware does not return without invoking it.
C22_TimeoutRace ==
    [][\A u \in Waiting :
          /\ Fires(u)
             => /\ Top(u).deadline = "first"
                /\ fired'[units[u].req] = 1
                /\ units'[Top(u).child] = units[Top(u).child]
          /\ Leaves(u) => Top(u).deadline # "first"]_vars

(***************************************************************************)
(* Claims about priorities and the order of children (SpecTree).           *)
(***************************************************************************)
\* the byte every pattern through the child c begins with below its parent: the
\* first byte of its fragment or, for the empty fragment of a catch-all, the
\* first byte of the node that holds the variable
RECURSIVE FirstByte(_, _)
FirstByte(t, c) ==
    IF t[c].path # <<>> THEN t[c].path[1]
    ELSE IF t[c].children # <<>> THEN FirstByte(t, t[c].children[1])
    ELSE ""

\* the children of node n stand in the order of their priorities, highest first
ChildrenByPriority(t, n) ==
    \A e \in 1 .. Len(t[n].children) - 1 :
        t[t[n].children[e]].priority >= t[t[n].children[e + 1]].priority

\* every byte of the first-byte index of node n stands at the place of the
\* child whose patterns begin with it
IndexDesignates(t, n) ==
    \A e \in 1 .. Len(t[n].indices) :
        /\ e <= Len(t[n].children)
        /\ t[n].indices[e] = FirstByte(t, t[n].children[e])

\* C31: after successful registrations the children of every node are ordered
\* by non-increasing priority, and the i-th byte of the first-byte index of a
\* node designates its i-th child.
C31_ChildrenOrdered ==
    AllOk => \A n \in 1 .. Len(root) :
                 /\ ChildrenByPriority(root, n)
                 /\ IndexDesignates(root, n)

\* /b, /a, then /ab: a was moved ahead of b, the priorities read 2, 1 and the
\* index reads "ab"
C31_Witness ==
    /\ Len(registered) = 3
    /\ AllOk
    /\ registered[1].path = <<"/", "b">>
    /\ registered[2].path = <<"/", "a">>
    /\ registered[3].path = <<"/", "a", "b">>
    /\ lookup = NoLookup
    /\ root[1].indices = <<"a", "b">>
    /\ FirstByte(root, root[1].children[1]) = "a"
    /\ FirstByte(root, root[1].children[2]) = "b"
    /\ root[root[1].children[1]].priority > root[root[1].children[2]].priority

\* the pattern p, of which rest is left at node m, is bound at or below m: the
\* fragments on the way spell the pattern, and the node they end at holds a
\* chain registered under p
RECURSIVE Reaches(_, _, _, _)
Reaches(t, m, rest, p) ==
    /\ Len(rest) >= Len(t[m].path)
    /\ hasPrefix(rest, t[m].path)
    /\ IF rest = t[m].path
       THEN t[m].handlers # NilH /\ t[m].fullPath = p
       ELSE \E e \in 1 .. Len(t[m].children) :
               Reaches(t, t[m].children[e], From(rest, Len(t[m].path)), p)

\* the way of the pattern p from node m to the node it is bound at leads
\* through node n
RECURSIVE Via(_, _, _, _, _)
Via(t, m, rest, p, n) ==
    IF m = n
    THEN Reaches(t, m, rest, p)
    ELSE /\ Len(rest) > Len(t[m].path)
         /\ hasPrefix(rest, t[m].path)
         /\ \E e \in 1 .. Len(t[m].children) :
               Via(t, t[m].children[e], From(rest, Len(t[m].path)), p, n)

\* the registrations whose pattern passes through or ends at node n
RoutesThrough(t, regs, n) ==
    {k \in 1 .. Len(regs) : regs[k].err = "ok" /\ Via(t, 1, regs[k].path, regs[k].path, n)}

\* every node of t counts in its priority the registrations through it
PriorityIsRouteCount(t, regs) ==
    \A n \in 1 .. Len(t) : t[n].priority = Cardinality(RoutesThrough(t, regs, n))

\* this step splits node n: its fragment is cut and a new node takes the rest
Splits(n) ==
    /\ root[n].path # <<>>
    /\ Len(root'[n].path) < Len(root[n].path)

\* C32: after successful registrations each node's priority equals the number
\* of registered routes whose pattern passes through or ends at that node, the
\* root's equals the number of registered routes, and a node created by a
\* split receives the count of the routes through the original node before the
\* current insertion.
C32_PriorityIsRouteCount ==
    [][(RegistersOk /\ \A k \in 1 .. Len(registered) : registered[k].err = "ok")
       => /\ PriorityIsRouteCount(root', registered')
          /\ root'[1].priority = Len(registered')
          /\ \A n \in 1 .. Len(root) :
                Splits(n)
                => /\ root'[n].children[1] > Len(root)
                   /\ root'[root'[n].children[1]].priority = root[n].priority
                   /\ root[n].priority = Cardinality(RoutesThrough(root, registered, n))]_vars

(***************************************************************************)
(* Claims about the matched pattern and failed registrations (SpecTree).   *)
(***************************************************************************)
\* the registrations that bound the chain h
BoundBy(h) == {k \in 1 .. Len(registered) : Some(registered[k].chain) = h}

\* C33: every successful lookup returns as matched pattern exactly the pattern
\* string given to the registration that bound the returned chain, also after
\* later insertions have split or extended nodes on the way to it.
C33_MatchedPatternIsRegistered ==
    lookup.res.handlers # NilH
    => /\ BoundBy(lookup.res.handlers) # {}
       /\ \A k \in BoundBy(lookup.res.handlers) :
             lookup.res.fullPath = registered[k].path

\* /ab, then /a split the node of /ab and /ac extended it: the lookup of /ab
\* still reports the pattern /ab with the first chain
C33_Witness ==
    /\ Len(registered) = 3
    /\ AllOk
    /\ registered[1].path = <<"/", "a", "b">>
    /\ registered[2].path = <<"/", "a">>
    /\ registered[3].path = <<"/", "a", "c">>
    /\ root[1].path = <<"/", "a">>
    /\ Len(root[1].children) = 2
    /\ lookup.path = <<"/", "a", "b">>
    /\ lookup.res.handlers = Some(<<1>>)
    /\ lookup.res.fullPath = <<"/", "a", "b">>

\* this step is a registration that panicked
RegistersFailing ==
    /\ Len(registered') = Len(registered) + 1
    /\ registered'[Len(registered')].err # "ok"

\* C34: a registration that fails leaves every previously registered route
\* resolvable to the same chain and the same parameters as before the failed
\* call, although the call may have split nodes, raised priorities or appended
\* nodes before the error was detected.
C34_FailedRegistrationKeepsRoutes ==
    [][RegistersFailing
       => \A k \in 1 .. Len(registered) :
             LET before == getValue(root, Inst(registered[k].path))
                 after  == getValue(root', Inst(registered[k].path))
             IN  before.handlers = Some(registered[k].chain)
                 => /\ after.handlers = before.handlers
                    /\ after.params = before.params
                    /\ after.fullPath = before.fullPath]_vars

\* /a/b, then /a/*r failed after it had split the node of /a/b into "/a/" and
\* "b" and raised the root's priority; /a/b is still found with the first chain
C34_Witness ==
    /\ Len(registered) = 2
    /\ registered[1].path = <<"/", "a", "/", "b">>
    /\ registered[1].err = "ok"
    /\ registered[2].path = <<"/", "a", "/", "*", "r">>
    /\ registered[2].err = "wildcard segment conflicts with existing children"
    /\ root[1].path = <<"/", "a", "/">>
    /\ root[1].priority = 2
    /\ Len(root) = 2
    /\ lookup.path = <<"/", "a", "/", "b">>
    /\ lookup.res.handlers = Some(<<1>>)

(***************************************************************************)
(* Claims about the route tables of the methods (SpecMethods).             *)
(***************************************************************************)
\* the b-th registration bound its pattern under the method m: it reached m
\* and addRoute returned for it
OkAt(b, m) ==
    \E j \in 1 .. Len(bound[b].methods) :
        /\ bound[b].methods[j] = m
        /\ (bound[b].err = "ok" \/ j < Len(bound[b].methods))

\* this step is a registration
RegistersRoute == Len(bound') = Len(bound) + 1

\* this step is a route search
Dispatches == lookup' # lookup

\* a registration changes the lookup result of no path under a method it is
\* not made for; it fails with the duplicate error under a method only if the
\* same pattern was bound under that method before, and not at all under a
\* method without routes
RegistrationPerMethod ==
    RegistersRoute
    => LET new == bound'[Len(bound')]
           at  == new.methods[Len(new.methods)]
       IN  /\ \A req \in MethodRequests :
                 ((\A j \in 1 .. Len(new.methods) : new.methods[j] # req.method)
                  => findRoute(trees', req) = findRoute(trees, req))
           /\ (new.err = "handlers are already registered for path"
               => \E b \in 1 .. Len(bound) :
                     bound[b].path = new.path /\ OkAt(b, at))
           /\ (new.err # "ok" => \E b \in 1 .. Len(bound) : OkAt(b, at))

\* a request whose method has no routes finds nothing and is given the
\* not-found chain
DispatchWithoutRoutes ==
    (Dispatches /\ \A b \in 1 .. Len(bound) : ~OkAt(b, lookup'.method))
    => (/\ lookup'.res = NotFound
        /\ handleRequest(ZeroContext, trees,
                         [method |-> lookup'.method, path |-> lookup'.path]).handlers
           = <<"notFound">>)

\* C35: the route tables are independent per method: registering a pattern
\* under one method never changes the lookup result of any path under another
\* method, the same pattern can be registered once under each method without
\* a duplicate error, and a request whose method has no routes gets the
\* not-found chain.
C35_TablesPerMethod == [][RegistrationPerMethod /\ DispatchWithoutRoutes]_vars

\* /a registered under GET and then under POST, both without error; GET /a and
\* POST /a resolve to their own chains and PUT /a, a method without routes, is
\* not found
C35_Witness ==
    /\ Len(bound) = 2
    /\ bound[1].path = <<"/", "a">> /\ bound[1].methods = <<"GET">> /\ bound[1].err = "ok"
    /\ bound[2].path = <<"/", "a">> /\ bound[2].methods = <<"POST">> /\ bound[2].err = "ok"
    /\ findRoute(trees, [method |-> "GET", path |-> <<"/", "a">>]).handlers = Some(<<1>>)
    /\ findRoute(trees, [method |-> "POST", path |-> <<"/", "a">>]).handlers = Some(<<2>>)
    /\ trees["PUT"] = NoTree
    /\ lookup.path = <<"/", "a">>
    /\ lookup.method = "PUT"
    /\ lookup.res = NotFound

(***************************************************************************)
(* Claims about middleware given after derivation and registration         *)
(* (SpecGroup).                                                            *)
(***************************************************************************)
\* this step is a Use on group g
UsesOn(g) ==
    /\ Len(groups') = Len(groups)
    /\ groups'[g].own # groups[g].own

\* C36: the chain bound to a route and the middleware of a derived group are
\* snapshots: a Use on a group, be it an ancestor or a derived group, leaves
\* the middleware of every other group and the chain of every registered route
\* as they were, and the group itself gets the new middleware at the end.
C36_UseKeepsSnapshots ==
    [][\A g \in 1 .. Len(groups) :
          UsesOn(g)
          => (/\ \A g2 \in 1 .. Len(groups) :
                    g2 # g => groups'[g2].handlers = groups[g2].handlers
              /\ \A b \in 1 .. Len(bound) :
                    bound[b].err = "ok"
                    => (/\ BoundChain(b) = Some(bound[b].chain)
                        /\ BoundChain(b)' = BoundChain(b))
              /\ \E j \in 1 .. Len(groups'[g].handlers) :
                    /\ SubSeq(groups'[g].handlers, 1, j - 1) = groups[g].handlers
                    /\ SubSeq(groups'[g].handlers, j, Len(groups'[g].handlers))
                       = SubSeq(groups'[g].own, Len(groups[g].own) + 1,
                                Len(groups'[g].own)))]_vars

\* the engine's group was given 1, a group was derived from it and a route
\* registered on that with 2; then the engine's group was given 3, in place in
\* the array of its slice: the derived group still has 1 alone and the route
\* the chain 1, 2
C36_Witness ==
    /\ Len(groups) = 2
    /\ groups[1].handlers = <<1, 3>>
    /\ groups[1].cap = 2
    /\ groups[2].parent = 1
    /\ groups[2].handlers = <<1>>
    /\ Len(bound) = 1
    /\ bound[1].group = 2
    /\ bound[1].err = "ok"
    /\ BoundChain(1) = Some(<<1, 2>>)

(***************************************************************************)
(* Claims about the recovery middleware (SpecRecovery).                    *)
(***************************************************************************)
\* the positions, from 0, of the handlers of chain ch that panic
Faulting(ch) == {k \in 0 .. Len(ch) - 1 : At(ch, k) = "panic"}

\* the requests whose chain starts with a recovery middleware of kind h and has
\* a handler that panics
Wrapped(h) ==
    {r \in Requests : /\ ran[r] # <<>>
                      /\ ran[r][1][1] = h
                      /\ Faulting(ran[r][1]) # {}}

\* the fault of request r stays inside the recovery middleware: the goroutine
\* does not end with the panic, no handler behind the first faulting one is
\* invoked, and ServeHTTP returns with the status of the error response
Recovered(r) ==
    /\ units[r].st # "panic"
    /\ \A i \in 1 .. Len(calls[r]) :
          \A k \in Faulting(ran[r][1]) : calls[r][i] <= k
    /\ units[r].st = "done"
       => units[r].logged = 500

\* C37: when the recovery middleware wraps the chain and a later handler
\* faults, the fault does not reach ServeHTTP, one error response is produced
\* and no handler positioned after the faulting one is invoked, with the
\* default recovery response and with a custom recovery handler alike.
C37_RecoveryEndsChain ==
    \A r \in Wrapped("recovery") \cup Wrapped("recoveryCustom") : Recovered(r)

\* the same for the default recovery response alone
C37_DefaultRecoveryEndsChain ==
    \A r \in Wrapped("recovery") : Recovered(r)

(***************************************************************************)
(* Claims about the termination of a dispatch (SpecServeFair).             *)
(***************************************************************************)
\* the number of edges from node n down to its farthest leaf
RECURSIVE Height(_, _)
Height(t, n) ==
    IF t[n].children = <<>> THEN 0
    ELSE LET hs == {Height(t, t[n].children[k]) : k \in 1 .. Len(t[n].children)}
         IN  1 + CHOOSE h \in hs : \A h2 \in hs : h2 <= h

\* the frame on top of a call stack
TopOf(st) == st[Len(st)]

\* a pass of the loop of getValue that ends in continue walk goes on at a node
\* strictly below the one it started at, with no more of the path left
LookupDescends ==
    \A r \in Requests :
        LET st  == units[r].stack
            st2 == units'[r].stack
            t   == trees[reqs[r].method]
        IN  (/\ st # <<>> /\ TopOf(st).k = "getValue"
             /\ st2 # <<>> /\ TopOf(st2).k = "getValue"
             /\ st2 # st)
            => /\ Height(t, TopOf(st2).n) < Height(t, TopOf(st).n)
               /\ Len(TopOf(st2).path) <= Len(TopOf(st).path)

\* the goroutine of request r executes c.index++ of Next
Increments(r) ==
    /\ units[r].stack # <<>>
    /\ TopOf(units[r].stack).k = "next"
    /\ TopOf(units[r].stack).pc = "inc"
    /\ units'[r] # units[r]

\* every c.index++ of Next moves the cursor one position up
NextAdvances ==
    \A r \in Requests :
        Increments(r)
        => ctxs'[units[r].ctx].index = ctxs[units[r].ctx].index + 1

\* the goroutine of every request has ended
AllEnded == \A r \in Requests : units[r].st # "run"

\* the dispatch of every request comes to an end
C38_DispatchEnds == <>AllEnded

\* every pass of the lookup loop descends in the tree
C38_LookupDescends == [][LookupDescends]_vars

\* C38: the dispatch of a request whose handlers return terminates: every pass
\* of the lookup loop descends in a finite tree, every step of Next moves the
\* cursor one position up towards the end of the chain, and the goroutine of
\* the request comes to its end.
C38_DispatchTerminates ==
    /\ [][LookupDescends /\ NextAdvances]_vars
    /\ <>AllEnded

====
